---------------------------- MODULE Spec2Model ----------------------------
(***************************************************************************)
(* Code execution and grading engine of the learning platform backend:     *)
(*   backend/app/code_runner.py  run_code, LANGUAGE_CONFIGS                *)
(*   backend/app/routes.py       execute_code (POST /run-code),            *)
(*                               execute_tests (POST /run-tests)           *)
(*                                                                         *)
(* One request is handled at a time; the handler's position is pc.  The    *)
(* behaviour of the submitted program and of the host (is the compiler     *)
(* installed, does the process finish in time) is chosen                   *)
(* nondeterministically at the step that observes it.                      *)
(*                                                                         *)
(* Text is a sequence of tokens.  A token is either one whitespace         *)
(* character (" " or "\n") or a non-empty chunk that neither starts nor    *)
(* ends with whitespace, so str.strip() acts on tokens as it does on       *)
(* characters.  Python values that may be str, bytes or None carry a tag.  *)
(* subprocess is modelled as CPython does on POSIX: the streams carried by *)
(* TimeoutExpired are bytes, or None when nothing was captured, whatever   *)
(* text=True says.  A step that ends in time leaves no process of interest *)
(* behind; of a step that timed out, procs keeps what still runs while the *)
(* call lasts.                                                             *)
(*                                                                         *)
(* Spec follows execute_code and execute_tests statement by statement up   *)
(* to the verdict.  More specifications over the same variables:           *)
(*   SpecProgress    execute_tests and mark_lesson_complete, each in one   *)
(*                   step, with the progress tables they write             *)
(*   SpecCourse      the same with update_project, an admin's request      *)
(*   SpecRace        two threads in execute_tests or mark_lesson_complete, *)
(*                   one database statement at a time                      *)
(*   SpecReport      read_progress over courses and progress rows          *)
(*   SpecLookup      /run-code with the language in every spelling         *)
(*   SpecConcurrent  two threads in run_code at the same time              *)
(*   SpecAuth        register_user, login and read_current_user            *)
(***************************************************************************)
EXTENDS Integers, Sequences, FiniteSets, TLC

\* ------------------------------------------------------------------ bounds

\* Largest number of test cases of the graded exercise.
MaxTests == 3

\* ------------------------------------------------------------- Python values

None == [t |-> "none", v |-> <<>>]
Str(s) == [t |-> "str", v |-> s]
Bytes(s) == [t |-> "bytes", v |-> s]

\* Truthiness of None / str / bytes.
Truthy(x) == x.t # "none" /\ x.v # <<>>

\* x or d
PyOr(x, d) == IF Truthy(x) THEN x ELSE d

\* x + y is defined for two str or two bytes; str + bytes raises TypeError.
CanAdd(x, y) == x.t = y.t /\ x.t \in {"str", "bytes"}
PyAdd(x, y) == [t |-> x.t, v |-> x.v \o y.v]

\* str(x): a str is itself, bytes give their repr b'...', None gives "None".
PyStr(x) ==
    CASE x.t = "str" -> x.v
      [] x.t = "bytes" -> <<"b'">> \o x.v \o <<"'">>
      [] OTHER -> <<"None">>

Whitespace == {" ", "\n"}

RECURSIVE LStrip(_)
LStrip(s) == IF s # <<>> /\ Head(s) \in Whitespace THEN LStrip(Tail(s)) ELSE s

RECURSIVE RStrip(_)
RStrip(s) ==
    IF s # <<>> /\ s[Len(s)] \in Whitespace
    THEN RStrip(SubSeq(s, 1, Len(s) - 1))
    ELSE s

\* str.strip()
Strip(s) == RStrip(LStrip(s))

\* language.lower() on the characters that occur in language identifiers.
LowerChar(c) ==
    CASE c = "P" -> "p"
      [] c = "Y" -> "y"
      [] c = "T" -> "t"
      [] c = "H" -> "h"
      [] c = "O" -> "o"
      [] c = "N" -> "n"
      [] c = "C" -> "c"
      [] c = "R" -> "r"
      [] OTHER -> c

\* Mutant: the language is looked up as given.
NotLowered(s) == s

Lower(s) == [i \in 1..Len(s) |-> LowerChar(s[i])]

\* The upper-case form of a lower-case letter of a registered identifier.
UpperChar(c) ==
    CASE c = "p" -> "P"
      [] c = "y" -> "Y"
      [] c = "t" -> "T"
      [] c = "h" -> "H"
      [] c = "o" -> "O"
      [] c = "n" -> "N"
      [] c = "c" -> "C"
      [] OTHER -> c

\* Every spelling of an identifier in upper- and lower-case letters.
CaseVariants(id) ==
    {s \in [1..Len(id) -> {id[i] : i \in 1..Len(id)}
                             \cup {UpperChar(id[i]) : i \in 1..Len(id)}] :
        \A i \in 1..Len(id) : s[i] \in {id[i], UpperChar(id[i])}}


\* ------------------------------------------------------- language registry

PythonId == <<"p", "y", "t", "h", "o", "n">>
CId == <<"c">>

\* dict.get on a missing key, and a profile entry that is absent.
NoConfig == [source_ext |-> "", compile |-> <<>>, run |-> <<>>, timeout |-> 0]

LANGUAGE_CONFIGS ==
    (PythonId :> [source_ext |-> ".py",
                  compile |-> <<>>,
                  run |-> <<"python3", "{source}">>,
                  timeout |-> 8])
    @@
    (CId :> [source_ext |-> ".c",
             compile |-> <<"gcc", "{source}", "-o", "{binary}">>,
             run |-> <<"{binary}">>,
             timeout |-> 10])

\* Language identifiers a request may carry.
Languages ==
    {PythonId, CId, <<"C">>, <<"r", "u", "b", "y">>}

\* Names tempfile.TemporaryDirectory may give a workspace.
DirNames == {"tmp1", "tmp2"}

\* workdir / f"Main{config['source_ext']}"
SourceName(ext) == IF ext = ".py" THEN "Main.py" ELSE "Main.c"

BinaryName == "app.out"

\* str(workdir / name)
PathStr(dir, name) ==
    CASE dir = "tmp1" /\ name = "Main.py" -> "tmp1/Main.py"
      [] dir = "tmp1" /\ name = "Main.c" -> "tmp1/Main.c"
      [] dir = "tmp1" /\ name = "app.out" -> "tmp1/app.out"
      [] dir = "tmp2" /\ name = "Main.py" -> "tmp2/Main.py"
      [] dir = "tmp2" /\ name = "Main.c" -> "tmp2/Main.c"
      [] OTHER -> "tmp2/app.out"

\* part.format(source=..., binary=...) for every part of the command
format_command(command, source, binary) ==
    [i \in 1..Len(command) |->
        CASE command[i] = "{source}" -> source
          [] command[i] = "{binary}" -> binary
          [] OTHER -> command[i]]

TimeoutMarker == <<"\n", "Execution timed out.">>

\* Mutant: the message does not name the command.
CommandNotFoundUnnamed(missing) == <<"Command not found">>

\* f"Command not found: {missing}"
CommandNotFound(missing) == <<"Command not found:", " ", missing>>

\* ------------------------------------------------------------ the database

\* ExerciseTest.timeout of the test with id i: the column's default of 5
\* seconds, and 20 seconds for the test with id 2.
TestTimeout(i) == IF i = 2 THEN 20 ELSE 5

\* The rows an exercise_tests table may hold for a test id: two fixtures per
\* id, with and without input, whose expected output strips to the same text.
TestPool ==
    {[id |-> i, input_data |-> None, expected_output |-> <<"a">>,
      timeout |-> TestTimeout(i)]
        : i \in 1..MaxTests}
    \cup
    {[id |-> i, input_data |-> Str(<<"1">>),
      expected_output |-> <<" ", "a", "\n">>, timeout |-> TestTimeout(i)]
        : i \in 1..MaxTests}

\* exercise.tests as the relationship loads it: the rows of the exercise in
\* any order, their primary keys distinct.
TestLists ==
    UNION {{q \in [1..n -> TestPool] :
                /\ \A i, j \in 1..n : i # j => q[i].id # q[j].id
                /\ \A i \in 1..n : q[i].id \in 1..n}
           : n \in 0..MaxTests}

\* The graded exercise has id 1; no exercise has id 2.
ExerciseIds == {1}
RequestedExerciseIds == {1, 2}

\* Mutant: the tests are taken in storage order.
Unsorted(q) == q

\* sorted(exercise.tests, key=lambda test: test.id)
RECURSIVE SortById(_)
SortById(q) ==
    IF q = <<>> THEN <<>>
    ELSE LET m == CHOOSE i \in 1..Len(q) : \A j \in 1..Len(q) : q[i].id <= q[j].id
         IN <<q[m]>> \o SortById([k \in 1..(Len(q) - 1) |->
                                      IF k < m THEN q[k] ELSE q[k + 1]])

\* ------------------------------------------------------------- the state

VARIABLES
    exercise_tests, \* exercise id -> its test rows, in storage order
    fs,             \* the temporary directories that exist and the files in them
    pc,             \* where the request handler stands
    request,        \* the request being handled
    response,       \* what the last handler answered
    tests,          \* execute_tests: the sorted tests
    idx,            \* execute_tests: index of the test of this iteration
    results,        \* execute_tests: results
    all_passed,     \* execute_tests: all_passed
    started,        \* history: test ids run_code was called for in this request
    executions,     \* history: what run_code returned for each recorded test
    call,           \* run_code: its arguments
    config,         \* run_code: config
    workdir,        \* run_code: the workspace of this call, None before it exists
    steps,          \* history: what the last run_code call did to the host
    pending,        \* run_code: the return value or exception leaving the with block
    execution,      \* the caller's view of the finished run_code call
    registry,       \* the module-level dict LANGUAGE_CONFIGS
    procs,          \* run_code: the processes of a timed-out step of this
                    \* call that are still running; not followed once the
                    \* call is over
    exercise_progress, \* the rows of table exercise_progress, in insertion order
    lesson_progress,   \* the rows of table lesson_progress
    progress,          \* the rows of table progress (one course of one student)
    now,               \* datetime.utcnow(), in ticks
    current_user,      \* the id of the authenticated student of the request
    previous,          \* history: the status the student's row for the exercise
                       \* had when the last /run-tests call came in
    calls,             \* worker thread -> the run_code call it is in
    host_cwd,          \* the files in the working directory of the server process
    users,             \* the rows of table users; a row's id is its position
    clients,           \* client -> its /auth/register request in flight
    bearer,            \* the token of the last successful login, and the email
                       \* of that login request
    registrations,     \* history: the email and password of every request
                       \* /auth/register answered with 201
    projects,          \* the rows of table projects; a row's id is its position
    catalog,           \* the rows of table courses, with the lessons and
                       \* exercises of each, as the progress report reads them
    sessions           \* thread -> the request it handles, its position in
                       \* the handler and what its database session has read

\* The variables the step-level actions of the engine leave alone: the
\* progress store, which ExecuteTests and MarkLessonComplete below write.
others ==
    <<exercise_progress, lesson_progress, progress, now, current_user, previous,
      calls, host_cwd, users, clients, bearer, registrations, projects, catalog,
      sessions>>

vars ==
    <<exercise_tests, fs, pc, request, response, tests, idx, results,
      all_passed, started, executions, call, config, workdir, steps, pending,
      execution, registry, procs, others>>

\* Mutant: an unknown language falls back to the python profile.
ResolveWithDefault(language) ==
    IF Lower(language) \in DOMAIN registry
    THEN registry[Lower(language)]
    ELSE registry[PythonId]

\* LANGUAGE_CONFIGS.get(language.lower())
Resolve(language) ==
    IF Lower(language) \in DOMAIN registry
    THEN registry[Lower(language)]
    ELSE NoConfig

\* The registry after dict.get: get inserts nothing.
AfterGet(reg, language) == reg

\* Mutant: kill() reaches the whole process tree.
KillTree(running) == {}

\* What is left running when subprocess.run has handled its timeout:
\* Popen.kill() signals the process it started, and wait() reaps it; the
\* processes that one started are not signalled.
KillOnTimeout(running) == running \ {"child"}

\* The process of a step that timed out, with or without processes it
\* started itself.
ProcessTrees == {{"child"}, {"child", "descendant"}}

NoRequest == [endpoint |-> "none", language |-> <<>>, stdin |-> None, exercise_id |-> 0]
NoResponse == [kind |-> "none", status |-> 0, body |-> <<>>]
NoCall == [language |-> <<>>, stdin |-> None, caller |-> "none"]
NoExecution ==
    [kind |-> "none", exc |-> "", stdout |-> None, stderr |-> None,
     exit_code |-> 0, execution_time |-> 0]
NoDir == "none"

\* What the engine does not touch, the progress tables and the courses apart.
RestInit ==
    /\ progress = <<>>
    /\ now = 0
    /\ current_user = 0
    /\ previous = "none"
    /\ calls = [w \in {1, 2} |->
                  [pc |-> "free", language |-> <<>>, code |-> "", stdin |-> None,
                   workdir |-> "none", result |-> [kind |-> "none"]]]
    /\ host_cwd = {}
    /\ users = <<>>
    /\ clients = [c \in {1, 2} |-> [pc |-> "idle", payload |-> [endpoint |-> "none"]]]
    /\ bearer = [token |-> [sub |-> 0, role |-> "", exp |-> 0],
                 token_for |-> [local |-> <<>>, domain |-> <<>>]]
    /\ registrations = {}
    /\ projects = <<[student_id |-> 1, course_id |-> 1,
                     status |-> <<"p", "e", "n", "d", "i", "n", "g">>]>>
    /\ sessions = [w \in {1, 2} |->
                     [pc |-> "free", endpoint |-> "none", language |-> <<>>,
                      all_passed |-> TRUE, results |-> <<>>, row |-> 0,
                      all_completed |-> FALSE, status |-> 0]]

\* The tables are empty before the first request.
UninvolvedInit ==
    /\ exercise_progress = <<>>
    /\ lesson_progress = <<>>
    /\ catalog = <<>>
    /\ RestInit

\* The engine before the first request.
EngineInit ==
    /\ exercise_tests \in [ExerciseIds -> TestLists]
    /\ fs = [dirs |-> {}, files |-> {}]
    /\ pc = "idle"
    /\ request = NoRequest
    /\ response = NoResponse
    /\ tests = <<>>
    /\ idx = 0
    /\ results = <<>>
    /\ all_passed = TRUE
    /\ started = <<>>
    /\ executions = <<>>
    /\ call = NoCall
    /\ config = NoConfig
    /\ workdir = NoDir
    /\ steps = <<>>
    /\ pending = NoExecution
    /\ execution = NoExecution
    /\ registry = LANGUAGE_CONFIGS
    /\ procs = {}

Init ==
    /\ EngineInit
    /\ UninvolvedInit

\* ----------------------------------------------------------- the requests

\* A client posts /run-code or /run-tests.  What the previous request left
\* in the handler's locals is gone.
Request ==
    /\ pc = "idle"
    /\ \E endpoint \in {"run-code", "run-tests"}, language \in Languages :
        \/ /\ endpoint = "run-code"
           /\ \E stdin \in {None, Str(<<"1">>)} :
                request' = [endpoint |-> endpoint, language |-> language,
                            stdin |-> stdin, exercise_id |-> 0]
           /\ pc' = "execute_code"
        \/ /\ endpoint = "run-tests"
           /\ \E e \in RequestedExerciseIds :
                request' = [endpoint |-> endpoint, language |-> language,
                            stdin |-> None, exercise_id |-> e]
           /\ pc' = "execute_tests"
    /\ response' = NoResponse
    /\ tests' = <<>>
    /\ idx' = 0
    /\ results' = <<>>
    /\ all_passed' = TRUE
    /\ started' = <<>>
    /\ executions' = <<>>
    /\ call' = NoCall
    /\ config' = NoConfig
    /\ workdir' = NoDir
    /\ steps' = <<>>
    /\ pending' = NoExecution
    /\ execution' = NoExecution
    /\ procs' = {}
    /\ UNCHANGED <<exercise_tests, fs, registry, others>>

HTTPException(status, detail) == [kind |-> "error", status |-> status, body |-> detail]

\* An exception no handler catches: the framework answers 500.
Unhandled(exc) == [kind |-> "crash", status |-> 500, body |-> exc]

\* Entering run_code(language, code, stdin=stdin) from `caller`.
EnterRunCode(language, stdin, caller) ==
    /\ call' = [language |-> language, stdin |-> stdin, caller |-> caller]
    /\ config' = NoConfig
    /\ workdir' = NoDir
    /\ steps' = <<>>
    /\ pending' = NoExecution
    /\ execution' = NoExecution
    /\ procs' = {}
    /\ pc' = "run_code"

\* execute_code up to its call of run_code.
ExecuteCodeCall ==
    /\ pc = "execute_code"
    /\ EnterRunCode(request.language, request.stdin, "execute_code")
    /\ UNCHANGED <<exercise_tests, fs, request, response, tests, idx, results,
                   all_passed, started, executions>>
    /\ UNCHANGED <<registry, others>>

\* schemas.RunCodeResponse(stdout=str(...), stderr=str(...), ...)
RunCodeResponse(e) ==
    [kind |-> "run", status |-> 200,
     body |-> [stdout |-> PyStr(e.stdout), stderr |-> PyStr(e.stderr),
               exit_code |-> e.exit_code, execution_time |-> e.execution_time]]

\* execute_code once run_code has returned or raised.
ExecuteCodeRespond ==
    /\ pc = "execute_code_after"
    /\ response' =
         CASE execution.kind = "return" -> RunCodeResponse(execution)
           [] execution.kind = "raise" /\ execution.exc = "ExecutionError" ->
                HTTPException(400, "Unsupported language")
           [] OTHER -> Unhandled(execution.exc)
    /\ pc' = "idle"
    /\ UNCHANGED <<exercise_tests, fs, request, tests, idx, results, all_passed,
                   started, executions, call, config, workdir, steps, pending,
                   execution>>
    /\ UNCHANGED <<registry, procs, others>>

\* Mutant: an empty test list is graded like any other.
NoTestsNever(sorted_tests) == FALSE

\* if not tests
NoTests(sorted_tests) == sorted_tests = <<>>

\* execute_tests up to the loop: the exercise and its tests.
ExecuteTestsEnter ==
    /\ pc = "execute_tests"
    /\ IF request.exercise_id \notin DOMAIN exercise_tests
       THEN /\ response' = HTTPException(404, "Exercise not found")
            /\ pc' = "idle"
            /\ UNCHANGED <<tests, idx, results, all_passed>>
       ELSE /\ tests' = SortById(exercise_tests[request.exercise_id])
            /\ IF NoTests(tests')
               THEN /\ response' = HTTPException(400, "Exercise has no tests configured")
                    /\ pc' = "idle"
                    /\ UNCHANGED <<idx, results, all_passed>>
               ELSE /\ results' = <<>>
                    /\ all_passed' = TRUE
                    /\ idx' = 1
                    /\ pc' = "for_test"
                    /\ UNCHANGED response
    /\ UNCHANGED <<exercise_tests, fs, request, started, executions, call,
                   config, workdir, steps, pending, execution>>
    /\ UNCHANGED <<registry, procs, others>>

\* The head of `for test in tests`: the next test's run_code call, or the end
\* of the loop.
ForTest ==
    /\ pc = "for_test"
    /\ IF idx <= Len(tests)
       THEN /\ EnterRunCode(request.language, tests[idx].input_data, "execute_tests")
            /\ started' = Append(started, tests[idx].id)
       ELSE /\ pc' = "after_loop"
            /\ UNCHANGED <<started, call, config, workdir, steps, pending, execution,
                           procs>>
    /\ UNCHANGED <<exercise_tests, fs, request, response, tests, idx, results,
                   all_passed, executions>>
    /\ UNCHANGED <<registry, others>>

\* ---------------------------------------------------------------- run_code

Return(stdout, stderr, exit_code, execution_time) ==
    [kind |-> "return", exc |-> "", stdout |-> stdout, stderr |-> stderr,
     exit_code |-> exit_code, execution_time |-> execution_time]

Raise(exc) ==
    [kind |-> "raise", exc |-> exc, stdout |-> None, stderr |-> None,
     exit_code |-> 0, execution_time |-> 0]

\* Where the caller of run_code goes on.
Continuation(caller) ==
    IF caller = "execute_tests" THEN "record" ELSE "execute_code_after"

\* One subprocess.run call, as the steps history keeps it.  The creation and
\* the removal of the workspace are kept as steps "mkdtemp" and "cleanup".
Step(name, command, timeout, input, outcome, code, stdout, stderr) ==
    [step |-> name, command |-> command, timeout |-> timeout, input |-> input,
     outcome |-> outcome, code |-> code, stdout |-> stdout, stderr |-> stderr,
     elapsed |-> 0]

\* The step, with the seconds it took.
Took(step, seconds) == [step EXCEPT !.elapsed = seconds]

HostStep(name) == Step(name, <<>>, 0, None, "done", 0, None, None)

\* What a compiler run that ends may report; a compiler killed by signal 9
\* has return code -9.
CompileExits ==
    {[code |-> 0, stdout |-> <<>>, stderr |-> <<>>],
     [code |-> 1, stdout |-> <<>>, stderr |-> <<"e", "\n">>],
     [code |-> 1, stdout |-> <<"o">>, stderr |-> <<"e", "\n">>],
     [code |-> -9, stdout |-> <<>>, stderr |-> <<>>]}

\* What a run of the submitted program that ends may report.
RunExits ==
    {[code |-> 0, stdout |-> <<"a", "\n">>, stderr |-> <<>>],
     [code |-> 0, stdout |-> <<"b">>, stderr |-> <<>>],
     [code |-> 1, stdout |-> <<"a", "\n">>, stderr |-> <<"e">>],
     [code |-> 1, stdout |-> <<>>, stderr |-> <<"e">>]}

\* Mutant: the timeout of the test case being graded is honoured.
TimeoutOfTest(cfg) ==
    IF idx \in 1..Len(tests) THEN tests[idx].timeout ELSE cfg.timeout

\* timeout = int(config.get("timeout", 8)); every profile has the key.
Timeout(cfg) == cfg.timeout

\* Seconds perf_counter may measure for a run that ends in time.
RunDurations == {1, 2}

\* Seconds a compiler run that ends in time takes.
CompileDurations == {1}

\* The seconds the steps after the first `start` steps of a history took.
RECURSIVE SecondsSince(_, _)
SecondsSince(history, start) ==
    IF Len(history) <= start
    THEN 0
    ELSE history[Len(history)].elapsed
         + SecondsSince(SubSeq(history, 1, Len(history) - 1), start)

\* Mutant: the clock is read before the compile step.
StartBeforeCompile(history) == 1

\* start = time.perf_counter(), read between the compile step and the run
\* step: the steps of the call that are over when the clock is read.
Start(history) == Len(history)

\* duration = time.perf_counter() - start
Duration(history, start) == SecondsSince(history, start)

\* What TimeoutExpired carries of a stream: bytes, or None when nothing was read.
PartialStdouts == {None, Bytes(<<"a">>)}
PartialStderrs == {None, Bytes(<<"e">>)}

\* config = LANGUAGE_CONFIGS.get(language.lower()); raise if there is none.
RunCodeLookup ==
    /\ pc = "run_code"
    /\ config' = Resolve(call.language)
    /\ registry' = AfterGet(registry, call.language)
    /\ IF config' = NoConfig
       THEN /\ execution' = Raise("ExecutionError")
            /\ pc' = Continuation(call.caller)
       ELSE /\ pc' = "with_tmpdir"
            /\ UNCHANGED execution
    /\ UNCHANGED <<exercise_tests, fs, request, response, tests, idx, results,
                   all_passed, started, executions, call, workdir, steps, pending>>
    /\ UNCHANGED <<procs, others>>

\* with tempfile.TemporaryDirectory() as tmp_dir, and source_path.write_text(code)
RunCodeWorkspace ==
    /\ pc = "with_tmpdir"
    /\ \E d \in DirNames \ fs.dirs :
        /\ workdir' = d
        /\ fs' = [dirs |-> fs.dirs \cup {d},
                  files |-> fs.files \cup {<<d, SourceName(config.source_ext)>>}]
    /\ steps' = Append(steps, HostStep("mkdtemp"))
    /\ pc' = "compile"
    /\ UNCHANGED <<exercise_tests, request, response, tests, idx, results,
                   all_passed, started, executions, call, config, pending,
                   execution>>
    /\ UNCHANGED <<registry, procs, others>>

\* Mutant: only a positive return code counts as a failed compilation.
CompileFailedIfPositive(returncode) == returncode > 0

\* if compiled.returncode != 0
CompileFailed(returncode) == returncode # 0

\* Mutant: the compiler's stdout is dropped from the result.
CompileFailureWithoutStdout(compiled) ==
    Return(Str(<<>>), Str(compiled.stderr), compiled.code, 0)

\* The result returned for a compiler that exits non-zero.
CompileFailureResult(compiled) ==
    Return(Str(compiled.stdout), Str(compiled.stderr), compiled.code, 0)

\* The compile step, for a profile that has one.
RunCodeCompile ==
    /\ pc = "compile"
    /\ IF config.compile = <<>>
       THEN /\ pc' = "run"
            /\ UNCHANGED <<fs, steps, pending, procs>>
       ELSE LET cmd == format_command(config.compile,
                                      PathStr(workdir, SourceName(config.source_ext)),
                                      PathStr(workdir, BinaryName))
            IN  \/ \* FileNotFoundError: the compiler is not installed
                   /\ steps' = Append(steps, Step("compile", cmd, Timeout(config), None,
                                                  "notfound", 0, None, None))
                   /\ pending' = Return(Str(<<>>), Str(CommandNotFound(cmd[1])), 127, 0)
                   /\ pc' = "exit_with"
                   /\ UNCHANGED <<fs, procs>>
                \/ \* TimeoutExpired: no handler of run_code catches it
                   /\ steps' = Append(steps,
                                      Took(Step("compile", cmd, Timeout(config), None,
                                                "timeout", 0, None, None),
                                           Timeout(config)))
                   /\ \E running \in ProcessTrees : procs' = KillOnTimeout(running)
                   /\ pending' = Raise("TimeoutExpired")
                   /\ pc' = "exit_with"
                   /\ UNCHANGED fs
                \/ \E compiled \in CompileExits, seconds \in CompileDurations :
                   /\ steps' = Append(steps,
                                      Took(Step("compile", cmd, Timeout(config), None,
                                                "exit", compiled.code,
                                                Str(compiled.stdout),
                                                Str(compiled.stderr)), seconds))
                   /\ IF CompileFailed(compiled.code)
                      THEN /\ pending' = CompileFailureResult(compiled)
                           /\ pc' = "exit_with"
                           /\ UNCHANGED fs
                      ELSE /\ fs' = [fs EXCEPT !.files = @ \cup {<<workdir, BinaryName>>}]
                           /\ pc' = "run"
                           /\ UNCHANGED pending
                   /\ UNCHANGED procs
    /\ UNCHANGED <<exercise_tests, request, response, tests, idx, results,
                   all_passed, started, executions, call, config, workdir,
                   execution>>
    /\ UNCHANGED <<registry, others>>

\* except subprocess.TimeoutExpired as exc: the result built from exc, or the
\* TypeError of adding the marker to bytes.
TimeoutResult(exc_stdout, exc_stderr, duration) ==
    IF CanAdd(PyOr(exc_stderr, Str(<<>>)), Str(TimeoutMarker))
    THEN Return(PyOr(exc_stdout, Str(<<>>)),
                PyAdd(PyOr(exc_stderr, Str(<<>>)), Str(TimeoutMarker)),
                -1, duration)
    ELSE Raise("TypeError")

\* The run step.
RunCodeRun ==
    /\ pc = "run"
    /\ LET cmd == format_command(config.run,
                                 PathStr(workdir, SourceName(config.source_ext)),
                                 PathStr(workdir, BinaryName))
           start == Start(steps)
       IN  \/ \E executed \in RunExits, seconds \in RunDurations :
                /\ steps' = Append(steps,
                                   Took(Step("run", cmd, Timeout(config), call.stdin,
                                             "exit", executed.code,
                                             Str(executed.stdout),
                                             Str(executed.stderr)), seconds))
                /\ pending' = Return(Str(executed.stdout), Str(executed.stderr),
                                     executed.code, Duration(steps', start))
                /\ UNCHANGED procs
           \/ \E seconds \in RunDurations :
                /\ steps' = Append(steps,
                                   Took(Step("run", cmd, Timeout(config), call.stdin,
                                             "notfound", 0, None, None), seconds))
                /\ pending' = Return(Str(<<>>), Str(CommandNotFound(cmd[1])), 127,
                                     Duration(steps', start))
                /\ UNCHANGED procs
           \/ \E out \in PartialStdouts, err \in PartialStderrs :
                /\ steps' = Append(steps,
                                   Took(Step("run", cmd, Timeout(config), call.stdin,
                                             "timeout", 0, out, err), Timeout(config)))
                /\ \E running \in ProcessTrees : procs' = KillOnTimeout(running)
                /\ pending' = TimeoutResult(out, err, Duration(steps', start))
    /\ pc' = "exit_with"
    /\ UNCHANGED <<exercise_tests, fs, request, response, tests, idx, results,
                   all_passed, started, executions, call, config, workdir,
                   execution>>
    /\ UNCHANGED <<registry, others>>

\* TemporaryDirectory.cleanup: the directory and everything in it.
Cleanup(f, dir) ==
    [dirs |-> f.dirs \ {dir}, files |-> {p \in f.files : p[1] # dir}]

\* Mutant: the workspace is removed only when the block returns.
CleansUpOnReturnOnly(leaving) == leaving.kind = "return"

\* TemporaryDirectory.__exit__ runs cleanup whether the block is left by
\* return or by exception.
CleansUp(leaving) == leaving.kind \in {"return", "raise"}

\* The with block is left, the frame of run_code is gone, and the caller has
\* the result or the exception.
RunCodeExitWith ==
    /\ pc = "exit_with"
    /\ IF CleansUp(pending)
       THEN /\ fs' = Cleanup(fs, workdir)
            /\ steps' = Append(steps, HostStep("cleanup"))
       ELSE UNCHANGED <<fs, steps>>
    /\ execution' = pending
    /\ pc' = Continuation(call.caller)
    /\ call' = NoCall
    /\ config' = NoConfig
    /\ workdir' = NoDir
    /\ pending' = NoExecution
    /\ procs' = {}
    /\ UNCHANGED <<exercise_tests, request, response, tests, idx, results,
                   all_passed, started, executions>>
    /\ UNCHANGED <<registry, others>>

\* ----------------------------------------------------- the grading loop

\* Mutant: the exit code is not looked at.
PassedIgnoringExit(exit_code, stdout, expected_output) ==
    Strip(stdout) = Strip(expected_output)

\* Mutant: the texts are compared as captured.
PassedUnstripped(exit_code, stdout, expected_output) ==
    exit_code = 0 /\ stdout = expected_output

\* passed = exit_code == 0 and actual_output == expected_output
Passed(exit_code, stdout, expected_output) ==
    exit_code = 0 /\ Strip(stdout) = Strip(expected_output)

TestCaseResult(test, passed, stdout, stderr) ==
    [test_id |-> test.id, passed |-> passed, stdout |-> stdout, stderr |-> stderr,
     expected_output |-> test.expected_output, input_data |-> test.input_data]

\* Mutant: all_passed follows the last test only.
LastPassed(all, passed) == passed

\* if not passed: all_passed = False
NextAllPassed(all, passed) == IF ~passed THEN FALSE ELSE all

\* Mutant: the loop stops on a positive exit code only.
BreakIfPositive(exit_code) == exit_code > 0

\* if exit_code != 0: break
BreakLoop(exit_code) == exit_code # 0

\* What the loop reads of an ExecutionResult.
Observed(e) == [stdout |-> e.stdout, stderr |-> e.stderr, exit_code |-> e.exit_code]

\* The rest of one iteration, once run_code has returned or raised.
Record ==
    /\ pc = "record"
    /\ IF execution.kind = "raise"
       THEN /\ response' = IF execution.exc = "ExecutionError"
                           THEN HTTPException(400, "Unsupported language")
                           ELSE Unhandled(execution.exc)
            /\ pc' = "idle"
            /\ UNCHANGED <<idx, results, all_passed, executions>>
       ELSE LET test == tests[idx]
                stdout == PyStr(execution.stdout)
                stderr == PyStr(execution.stderr)
                exit_code == execution.exit_code
                passed == Passed(exit_code, stdout, test.expected_output)
            IN  /\ executions' = Append(executions, Observed(execution))
                /\ results' = Append(results, TestCaseResult(test, passed, stdout, stderr))
                /\ all_passed' = NextAllPassed(all_passed, passed)
                /\ IF BreakLoop(exit_code)
                   THEN /\ pc' = "after_loop"
                        /\ UNCHANGED idx
                   ELSE /\ pc' = "for_test"
                        /\ idx' = idx + 1
                /\ UNCHANGED response
    /\ UNCHANGED <<exercise_tests, fs, request, tests, started, call, config,
                   workdir, steps, pending, execution>>
    /\ UNCHANGED <<registry, procs, others>>

RunTestsResponse(passed_all, res) ==
    [kind |-> "verdict", status |-> 200,
     body |-> [passed_all |-> passed_all, results |-> res]]

\* After the loop: the verdict is returned.  The writes to the progress store
\* that precede the return are in ExecuteTests, which takes the handler in
\* one step.
AfterLoop ==
    /\ pc = "after_loop"
    /\ response' = RunTestsResponse(all_passed, results)
    /\ pc' = "idle"
    /\ UNCHANGED <<exercise_tests, fs, request, tests, idx, results, all_passed,
                   started, executions, call, config, workdir, steps, pending,
                   execution>>
    /\ UNCHANGED <<registry, procs, others>>

Next ==
    \/ Request
    \/ ExecuteCodeCall
    \/ ExecuteCodeRespond
    \/ ExecuteTestsEnter
    \/ ForTest
    \/ RunCodeLookup
    \/ RunCodeWorkspace
    \/ RunCodeCompile
    \/ RunCodeRun
    \/ RunCodeExitWith
    \/ Record
    \/ AfterLoop

Spec == Init /\ [][Next]_vars

\* ------------------------------------------------------ the progress store

\* The clock stops at MaxNow.
MaxNow == 4

\* One student is enrolled.
Students == {1}

\* Course 1 has lesson 1, and lesson 1 has the exercise; there is no lesson 2.
LessonIds == {1}
RequestedLessonIds == {1, 2}
CourseLessons(course_id) == IF course_id = 1 THEN LessonIds ELSE {}
LessonExercises(lesson_id) == IF lesson_id = 1 THEN ExerciseIds ELSE {}
LessonOf(exercise_id) == 1
CourseOf(lesson_id) == 1

DateTime(n) == [t |-> "datetime", v |-> n]

\* What run_code may hand to the grading loop for a language: the results of
\* runs that end, of a run that times out with or without partial stderr, or
\* the ExecutionError of a language without profile.
RunCodeOutcomes(language) ==
    IF Resolve(language) = NoConfig
    THEN {Raise("ExecutionError")}
    ELSE {Return(Str(x.stdout), Str(x.stderr), x.code, 1) : x \in RunExits}
         \cup {TimeoutResult(out, err, Timeout(Resolve(language)))
                   : out \in PartialStdouts, err \in PartialStderrs}

\* for test in tests: ..., from test i on, run_code giving outs[i] for it.
RECURSIVE GradeLoop(_, _, _, _, _)
GradeLoop(sorted_tests, outs, i, res, all) ==
    IF i > Len(sorted_tests)
    THEN [kind |-> "done", exc |-> "", results |-> res, all_passed |-> all]
    ELSE IF outs[i].kind = "raise"
    THEN [kind |-> "raise", exc |-> outs[i].exc, results |-> res, all_passed |-> all]
    ELSE LET test == sorted_tests[i]
             stdout == PyStr(outs[i].stdout)
             stderr == PyStr(outs[i].stderr)
             exit_code == outs[i].exit_code
             passed == Passed(exit_code, stdout, test.expected_output)
             res2 == Append(res, TestCaseResult(test, passed, stdout, stderr))
             all2 == NextAllPassed(all, passed)
         IN  IF BreakLoop(exit_code)
             THEN [kind |-> "done", exc |-> "", results |-> res2, all_passed |-> all2]
             ELSE GradeLoop(sorted_tests, outs, i + 1, res2, all2)

\* models.ExerciseProgress(student_id=..., exercise_id=..., status="pending")
NewExerciseProgress(student_id, exercise_id) ==
    [student_id |-> student_id, exercise_id |-> exercise_id, status |-> "pending",
     last_run_output |-> None, last_error |-> None, completed_at |-> None,
     last_language |-> None]

\* select(ExerciseProgress).where(student_id == ..., exercise_id == ...)
ExerciseProgressOf(table, student_id, exercise_id) ==
    {i \in DOMAIN table : /\ table[i].student_id = student_id
                          /\ table[i].exercise_id = exercise_id}

\* The status of the student's row for the exercise, "none" without a row.
StatusOf(table, student_id, exercise_id) ==
    LET found == ExerciseProgressOf(table, student_id, exercise_id)
    IN  IF found = {} THEN "none" ELSE table[CHOOSE i \in found : TRUE].status

\* _get_or_create_exercise_progress: the table afterwards and the index of
\* the row; index 0 stands for the MultipleResultsFound of scalar_one_or_none.
get_or_create_exercise_progress(table, student_id, exercise_id) ==
    LET found == ExerciseProgressOf(table, student_id, exercise_id)
    IN  IF found = {}
        THEN [table |-> Append(table, NewExerciseProgress(student_id, exercise_id)),
              at |-> Len(table) + 1]
        ELSE IF Cardinality(found) = 1
        THEN [table |-> table, at |-> CHOOSE i \in found : TRUE]
        ELSE [table |-> table, at |-> 0]

\* Mutant: a record that is "passed" stays "passed".
GradedKeepingPassed(row, all, res, language, utcnow) ==
    IF row.status = "passed"
    THEN [row EXCEPT !.last_language = Str(language)]
    ELSE [row EXCEPT
            !.status = IF all THEN "passed" ELSE "failed",
            !.last_error = IF all \/ res = <<>> THEN None ELSE Str(res[Len(res)].stderr),
            !.completed_at = IF all THEN DateTime(utcnow) ELSE None,
            !.last_run_output = IF res = <<>> THEN None ELSE Str(res[Len(res)].stdout),
            !.last_language = Str(language)]

\* Mutant: every graded record is stamped with the time of the call.
GradedStampingAlways(row, all, res, language, utcnow) ==
    [row EXCEPT
        !.status = IF all THEN "passed" ELSE "failed",
        !.last_error = IF all \/ res = <<>> THEN None ELSE Str(res[Len(res)].stderr),
        !.completed_at = DateTime(utcnow),
        !.last_run_output = IF res = <<>> THEN None ELSE Str(res[Len(res)].stdout),
        !.last_language = Str(language)]

\* Mutant: the streams of the first result are stored.
GradedFirstResult(row, all, res, language, utcnow) ==
    [row EXCEPT
        !.status = IF all THEN "passed" ELSE "failed",
        !.last_error = IF all \/ res = <<>> THEN None ELSE Str(res[1].stderr),
        !.completed_at = IF all THEN DateTime(utcnow) ELSE None,
        !.last_run_output = IF res = <<>> THEN None ELSE Str(res[1].stdout),
        !.last_language = Str(language)]

\* Mutant: the student's row is looked up, and created, before the loop.
CreatedBeforeLoop(table, student_id, exercise_id) ==
    get_or_create_exercise_progress(table, student_id, exercise_id).table

\* The exercise-progress table when the loop is left by an exception: the
\* handler has not written; its first write, the lookup of the student's
\* row, follows the loop.
WrittenBeforeLoop(table, student_id, exercise_id) == table

\* The assignments to progress after the loop.
Graded(row, all, res, language, utcnow) ==
    [row EXCEPT
        !.status = IF all THEN "passed" ELSE "failed",
        !.last_error = IF all \/ res = <<>> THEN None ELSE Str(res[Len(res)].stderr),
        !.completed_at = IF all THEN DateTime(utcnow) ELSE None,
        !.last_run_output = IF res = <<>> THEN None ELSE Str(res[Len(res)].stdout),
        !.last_language = Str(language)]

\* select(Progress).where(student_id == ..., course_id == ...)
ProgressOf(table, student_id, course_id) ==
    {i \in DOMAIN table : /\ table[i].student_id = student_id
                          /\ table[i].course_id = course_id}

\* Mutant: a course that is marked completed stays completed.
SyncKeepingCompleted(eprog, lprog, prog, student_id, course_id) ==
    LET found == ProgressOf(prog, student_id, course_id)
    IN  IF found = {}
        THEN Append(prog, [student_id |-> student_id, course_id |-> course_id,
                           completed |-> FALSE, score |-> None])
        ELSE [prog EXCEPT ![CHOOSE i \in found : TRUE].completed =
                 @ \/ (/\ \A l \in CourseLessons(course_id) :
                            \E i \in DOMAIN lprog : /\ lprog[i].lesson_id = l
                                                     /\ lprog[i].completed
                       /\ \A e \in UNION {LessonExercises(l) : l \in CourseLessons(course_id)} :
                            \E i \in DOMAIN eprog : /\ eprog[i].exercise_id = e
                                                     /\ eprog[i].status = "passed")]

\* all_completed of _sync_course_completion, from the rows it selects.
AllCompleted(eprog, lprog, student_id, course_id) ==
    LET lesson_ids == CourseLessons(course_id)
        exercise_ids == UNION {LessonExercises(l) : l \in lesson_ids}
        lessons_completed ==
            Cardinality({i \in DOMAIN lprog : /\ lprog[i].student_id = student_id
                                              /\ lprog[i].lesson_id \in lesson_ids
                                              /\ lprog[i].completed})
        exercises_completed ==
            Cardinality({i \in DOMAIN eprog : /\ eprog[i].student_id = student_id
                                              /\ eprog[i].exercise_id \in exercise_ids
                                              /\ eprog[i].status = "passed"})
        total_lessons == Cardinality(lesson_ids)
        total_exercises == Cardinality(exercise_ids)
    IN  /\ ~(total_lessons # 0 /\ lessons_completed # total_lessons)
        /\ ~(total_exercises # 0 /\ exercises_completed # total_exercises)

\* models.Progress(student_id=..., course_id=...) with completed assigned.
NewProgress(student_id, course_id, completed) ==
    [student_id |-> student_id, course_id |-> course_id, completed |-> completed,
     score |-> None]

\* _sync_course_completion: the progress table afterwards.
sync_course_completion(eprog, lprog, prog, student_id, course_id) ==
    LET found == ProgressOf(prog, student_id, course_id)
        all_completed == AllCompleted(eprog, lprog, student_id, course_id)
    IN  IF found = {}
        THEN Append(prog, NewProgress(student_id, course_id, all_completed))
        ELSE [prog EXCEPT ![CHOOSE i \in found : TRUE].completed = all_completed]

\* POST /run-tests, the whole handler in one step: the lookups, the loop
\* with what run_code gives for each test, the writes to the student's
\* exercise-progress row, the commit and _sync_course_completion.
ExecuteTests ==
    /\ pc = "idle"
    /\ now < MaxNow
    /\ now' = now + 1
    /\ \E student \in Students, language \in Languages, e \in RequestedExerciseIds :
        /\ current_user' = student
        /\ request' = [endpoint |-> "run-tests", language |-> language,
                       stdin |-> None, exercise_id |-> e]
        /\ previous' = StatusOf(exercise_progress, student, e)
        /\ LET sorted_tests == IF e \in DOMAIN exercise_tests
                               THEN SortById(exercise_tests[e]) ELSE <<>>
           IN  IF e \notin DOMAIN exercise_tests
               THEN /\ response' = HTTPException(404, "Exercise not found")
                    /\ UNCHANGED <<exercise_progress, progress>>
               ELSE IF NoTests(sorted_tests)
               THEN /\ response' = HTTPException(400, "Exercise has no tests configured")
                    /\ UNCHANGED <<exercise_progress, progress>>
               ELSE \E outs \in [1..Len(sorted_tests) -> RunCodeOutcomes(language)] :
                    LET loop == GradeLoop(sorted_tests, outs, 1, <<>>, TRUE)
                        got == get_or_create_exercise_progress(exercise_progress,
                                                               student, e)
                        written == [got.table EXCEPT ![got.at] =
                                       Graded(@, loop.all_passed, loop.results,
                                              language, now)]
                    IN  IF loop.kind = "raise"
                        THEN /\ response' = IF loop.exc = "ExecutionError"
                                            THEN HTTPException(400, "Unsupported language")
                                            ELSE Unhandled(loop.exc)
                             /\ exercise_progress' =
                                    WrittenBeforeLoop(exercise_progress, student, e)
                             /\ UNCHANGED progress
                        ELSE IF got.at = 0
                        THEN /\ response' = Unhandled("MultipleResultsFound")
                             /\ UNCHANGED <<exercise_progress, progress>>
                        ELSE /\ exercise_progress' = written
                             /\ progress' = sync_course_completion(
                                                written, lesson_progress, progress,
                                                student, CourseOf(LessonOf(e)))
                             /\ response' = RunTestsResponse(loop.all_passed,
                                                             loop.results)
    /\ UNCHANGED <<exercise_tests, fs, pc, tests, idx, results, all_passed, started,
                   executions, call, config, workdir, steps, pending, execution,
                   registry, procs, lesson_progress, calls, host_cwd, users,
                   clients, bearer, registrations, projects, catalog, sessions>>

\* select(LessonProgress).where(student_id == ..., lesson_id == ...)
LessonProgressOf(table, student_id, lesson_id) ==
    {i \in DOMAIN table : /\ table[i].student_id = student_id
                          /\ table[i].lesson_id = lesson_id}

\* _get_or_create_lesson_progress
get_or_create_lesson_progress(table, student_id, lesson_id) ==
    LET found == LessonProgressOf(table, student_id, lesson_id)
    IN  IF found = {}
        THEN [table |-> Append(table, [student_id |-> student_id,
                                       lesson_id |-> lesson_id,
                                       completed |-> FALSE, completed_at |-> None]),
              at |-> Len(table) + 1]
        ELSE IF Cardinality(found) = 1
        THEN [table |-> table, at |-> CHOOSE i \in found : TRUE]
        ELSE [table |-> table, at |-> 0]

\* POST /mark-lesson-complete, the whole handler in one step.
MarkLessonComplete ==
    /\ pc = "idle"
    /\ now < MaxNow
    /\ now' = now + 1
    /\ \E student \in Students, lesson_id \in RequestedLessonIds :
        /\ current_user' = student
        /\ request' = [endpoint |-> "mark-lesson-complete", language |-> <<>>,
                       stdin |-> None, exercise_id |-> 0, lesson_id |-> lesson_id]
        /\ IF lesson_id \notin LessonIds
           THEN /\ response' = HTTPException(404, "Lesson not found")
                /\ UNCHANGED <<lesson_progress, progress>>
           ELSE LET got == get_or_create_lesson_progress(lesson_progress, student,
                                                         lesson_id)
                    written == [got.table EXCEPT ![got.at] =
                                   [@ EXCEPT !.completed = TRUE,
                                             !.completed_at = DateTime(now)]]
                IN  IF got.at = 0
                    THEN /\ response' = Unhandled("MultipleResultsFound")
                         /\ UNCHANGED <<lesson_progress, progress>>
                    ELSE /\ lesson_progress' = written
                         /\ progress' = sync_course_completion(
                                            exercise_progress, written, progress,
                                            student, CourseOf(lesson_id))
                         /\ response' = [kind |-> "lesson", status |-> 200,
                                         body |-> written[got.at]]
    /\ UNCHANGED <<exercise_tests, fs, pc, tests, idx, results, all_passed, started,
                   executions, call, config, workdir, steps, pending, execution,
                   registry, procs, exercise_progress, previous, calls, host_cwd,
                   users, clients, bearer, registrations, projects, catalog,
                   sessions>>

\* ------------------------------------------------------ an admin's update

\* An int of Python.
PyInt(n) == [t |-> "int", v |-> n]

\* The admin's user id.
Admin == 2

\* Project 1 is the student's project for course 1; there is no project 2.
RequestedProjectIds == {1, 2}

\* What the payload of PATCH /projects/{id} may carry as status and score;
\* None is a field that was not sent.
PayloadStatuses ==
    {None, Str(<<"C", "o", "m", "p", "l", "e", "t", "e", "d">>),
     Str(<<"d", "o", "n", "e">>)}
PayloadScores == {None, PyInt(90)}

\* _mark_course_completed: the progress table afterwards.
mark_course_completed(prog, student_id, course_id, score) ==
    LET found == ProgressOf(prog, student_id, course_id)
    IN  IF found = {}
        THEN Append(prog, [student_id |-> student_id, course_id |-> course_id,
                           completed |-> TRUE, score |-> score])
        ELSE [prog EXCEPT ![CHOOSE i \in found : TRUE] =
                 [@ EXCEPT !.completed = TRUE,
                           !.score = IF score # None THEN score ELSE @]]

\* PATCH /projects/{project_id}, the whole handler in one step.
UpdateProject ==
    /\ pc = "idle"
    /\ \E project_id \in RequestedProjectIds, status \in PayloadStatuses,
          score \in PayloadScores :
        /\ request' = [endpoint |-> "update-project", language |-> <<>>,
                       stdin |-> None, exercise_id |-> 0, project_id |-> project_id,
                       status |-> status, score |-> score]
        /\ IF project_id \notin DOMAIN projects
           THEN /\ response' = HTTPException(404, "Project not found")
                /\ UNCHANGED <<projects, progress>>
           ELSE LET project == projects[project_id]
                    by_status ==
                        IF Truthy(status)
                           /\ Lower(status.v) = <<"c", "o", "m", "p", "l", "e", "t", "e", "d">>
                        THEN mark_course_completed(progress, project.student_id,
                                                   project.course_id, score)
                        ELSE progress
                    by_score ==
                        IF score # None
                        THEN mark_course_completed(by_status, project.student_id,
                                                   project.course_id, score)
                        ELSE by_status
                IN  /\ projects' = [projects EXCEPT ![project_id].status =
                                        IF status # None THEN status.v ELSE @]
                    /\ progress' = by_score
                    /\ response' = [kind |-> "project", status |-> 200,
                                    body |-> projects'[project_id]]
    /\ current_user' = Admin
    /\ UNCHANGED <<exercise_tests, fs, pc, tests, idx, results, all_passed, started,
                   executions, call, config, workdir, steps, pending, execution,
                   registry, procs, exercise_progress, lesson_progress, now,
                   previous, calls, host_cwd, users, clients, bearer, registrations,
                   catalog, sessions>>

\* The exercises the store is exercised with: no test, one test, or two
\* tests stored in either order.
ProgressTestLists ==
    {q \in TestLists : /\ Len(q) <= 2
                       /\ \A i \in 1..Len(q) : q[i].input_data = None}

InitProgress ==
    /\ Init
    /\ \A e \in ExerciseIds : exercise_tests[e] \in ProgressTestLists

NextProgress ==
    \/ ExecuteTests
    \/ MarkLessonComplete

SpecProgress == InitProgress /\ [][NextProgress]_vars

\* The exercise has one test.
InitCourse ==
    /\ Init
    /\ \A e \in ExerciseIds :
          /\ exercise_tests[e] \in ProgressTestLists
          /\ Len(exercise_tests[e]) = 1

NextCourse ==
    \/ ExecuteTests
    \/ MarkLessonComplete
    \/ UpdateProject

SpecCourse == InitCourse /\ [][NextCourse]_vars

\* ------------------------------------------------------- spelled languages

\* The language of a /run-code request in any spelling of a registered
\* identifier, or an identifier that is not registered.
SpelledLanguages ==
    UNION {CaseVariants(id) : id \in DOMAIN LANGUAGE_CONFIGS} \cup {<<"r", "u", "b", "y">>}

\* A client posts /run-code.
RunCodeRequest ==
    /\ pc = "idle"
    /\ \E language \in SpelledLanguages :
        request' = [endpoint |-> "run-code", language |-> language,
                    stdin |-> None, exercise_id |-> 0]
    /\ pc' = "execute_code"
    /\ response' = NoResponse
    /\ execution' = NoExecution
    /\ steps' = <<>>
    /\ procs' = {}
    /\ UNCHANGED <<exercise_tests, fs, tests, idx, results, all_passed, started,
                   executions, call, config, workdir, pending, registry, others>>

InitLookup ==
    /\ Init
    /\ \A e \in ExerciseIds : exercise_tests[e] = <<>>

NextLookup ==
    \/ RunCodeRequest
    \/ ExecuteCodeCall
    \/ RunCodeLookup
    \/ RunCodeWorkspace
    \/ RunCodeCompile
    \/ RunCodeRun
    \/ RunCodeExitWith
    \/ ExecuteCodeRespond

SpecLookup == InitLookup /\ [][NextLookup]_vars

\* ------------------------------------------------------------ accounts

\* The clock stops after MaxDays days.
MaxDays == 2

\* security.ACCESS_TOKEN_EXPIRE_MINUTES = 60 * 24; the clock counts minutes.
ACCESS_TOKEN_EXPIRE_MINUTES == 1440

\* UserCreate.password: Field(min_length=6)
MinPasswordLength == 6

Clients == {1, 2}

\* Addresses a payload may carry: local part and domain, in either case.
Emails ==
    {[local |-> <<"c">>, domain |-> <<"c">>],
     [local |-> <<"c">>, domain |-> <<"C">>],
     [local |-> <<"C">>, domain |-> <<"c">>]}

\* Passwords a payload may carry; the second is too short to register.
Passwords == {<<"s", "e", "c", "r", "e", "t">>, <<"a", "b", "c">>}

\* A "role" key a register payload may carry besides the declared fields.
PayloadRoles == {"absent", "admin"}

\* EmailStr validation: the address comes out with its domain in lower
\* case and its local part as given.
NormalizeEmail(email) == [local |-> email.local, domain |-> Lower(email.domain)]

\* pwd_context.hash: bcrypt of the password; the salt is left out.
get_password_hash(password) == <<"bcrypt", password>>

\* Mutant: the hash is compared with the plain password.
VerifyPlain(plain_password, hashed_password) == hashed_password = plain_password

\* pwd_context.verify
verify_password(plain_password, hashed_password) ==
    hashed_password = get_password_hash(plain_password)

NoToken == [sub |-> 0, role |-> "", exp |-> 0]

\* A bearer token the server did not sign.
ForgedToken == [sub |-> 1, role |-> "admin", exp |-> -1]

\* jwt.encode({"sub": str(user_id), "role": role, "exp": utcnow + 24 h})
create_access_token(user_id, role, utcnow) ==
    [sub |-> user_id, role |-> role, exp |-> utcnow + ACCESS_TOKEN_EXPIRE_MINUTES]

\* decode_access_token: whether jwt.decode accepts the token at time utcnow;
\* it rejects a signature that is not the server's and an exp in the past.
Decodes(token, utcnow) == token # ForgedToken /\ ~(token.exp < utcnow)

\* select(User).where(User.email == email)
UsersWithEmail(table, email) == {i \in DOMAIN table : table[i].email = email}

\* Mutant: the role is taken from the payload when it has one.
NewUserWithPayloadRole(payload) ==
    [name |-> payload.name, email |-> NormalizeEmail(payload.email),
     password_hash |-> get_password_hash(payload.password),
     role |-> IF payload.role = "absent" THEN "student" ELSE payload.role]

\* models.User(name=..., email=..., password_hash=..., role="student")
NewUser(payload) ==
    [name |-> payload.name, email |-> NormalizeEmail(payload.email),
     password_hash |-> get_password_hash(payload.password),
     role |-> "student"]

\* response_model=schemas.User of row i
UserOut(table, i) ==
    [id |-> i, name |-> table[i].name, email |-> table[i].email,
     role |-> table[i].role]

Answer(kind, status, body) == [kind |-> kind, status |-> status, body |-> body]

\* What the account handlers leave alone.
UninvolvedAuth ==
    UNCHANGED <<exercise_tests, fs, pc, tests, idx, results, all_passed, started,
                executions, call, config, workdir, steps, pending, execution,
                registry, procs, exercise_progress, lesson_progress, progress,
                current_user, previous, calls, host_cwd, projects, catalog,
                sessions>>

NoPayload == [endpoint |-> "none"]

\* POST /auth/register up to the insert: validation of the payload and the
\* select for the email.  `taken` keeps what the select found.
RegisterUser ==
    \E c \in Clients :
    /\ UninvolvedAuth
    /\ clients[c].pc = "idle"
    /\ \E email \in Emails, password \in Passwords, role \in PayloadRoles :
        LET payload == [endpoint |-> "register", name |-> "n", email |-> email,
                        password |-> password, role |-> role,
                        taken |-> UsersWithEmail(users, NormalizeEmail(email)) # {}]
        IN  IF Len(password) < MinPasswordLength
            THEN /\ request' = payload
                 /\ response' = HTTPException(422, "validation")
                 /\ UNCHANGED clients
            ELSE IF payload.taken
            THEN /\ request' = payload
                 /\ response' = HTTPException(400, "Email already registered")
                 /\ UNCHANGED clients
            ELSE /\ clients' = [clients EXCEPT ![c] =
                                   [pc |-> "register_commit", payload |-> payload]]
                 /\ UNCHANGED <<request, response>>
    /\ UNCHANGED <<users, bearer, registrations, now>>

\* POST /auth/register from db.add on: the insert, which the unique index
\* on users.email refuses with IntegrityError when the email got registered
\* since the select.
RegisterCommit ==
    \E c \in Clients :
    /\ UninvolvedAuth
    /\ clients[c].pc = "register_commit"
    /\ clients' = [clients EXCEPT ![c] = [pc |-> "idle", payload |-> NoPayload]]
    /\ request' = clients[c].payload
    /\ LET payload == clients[c].payload
       IN  IF UsersWithEmail(users, NormalizeEmail(payload.email)) # {}
           THEN /\ response' = Unhandled("IntegrityError")
                /\ UNCHANGED <<users, registrations>>
           ELSE /\ users' = Append(users, NewUser(payload))
                /\ response' = Answer("user", 201, UserOut(users', Len(users')))
                /\ registrations' = registrations \cup
                                        {[email |-> payload.email,
                                          password |-> payload.password]}
    /\ UNCHANGED <<bearer, now>>

\* POST /auth/login, the whole handler.
Login ==
    \E c \in Clients :
    /\ UninvolvedAuth
    /\ clients[c].pc = "idle"
    /\ \E email \in Emails, password \in Passwords :
        LET found == UsersWithEmail(users, NormalizeEmail(email))
            user_id == CHOOSE i \in found : TRUE
        IN  /\ request' = [endpoint |-> "login", email |-> email, password |-> password]
            /\ IF found = {} \/ ~verify_password(password, users[user_id].password_hash)
               THEN /\ response' = HTTPException(400, "Incorrect email or password")
                    /\ UNCHANGED bearer
               ELSE /\ response' = Answer("token", 200,
                                          create_access_token(user_id,
                                                              users[user_id].role, now))
                    /\ bearer' = [token |-> create_access_token(user_id,
                                                                users[user_id].role, now),
                                  token_for |-> email]
    /\ UNCHANGED <<users, clients, registrations, now>>

\* GET /auth/me with the token of the last login, with a token the server
\* did not sign, or without one.
ReadCurrentUser ==
    \E c \in Clients :
    /\ UninvolvedAuth
    /\ clients[c].pc = "idle"
    /\ \E token \in {bearer.token, ForgedToken, NoToken} :
        /\ request' = [endpoint |-> "me", token |-> token]
        /\ response' =
              IF token = NoToken
              THEN HTTPException(401, "Not authenticated")
              ELSE IF ~Decodes(token, now) \/ token.sub \notin DOMAIN users
              THEN HTTPException(401, "Could not validate credentials")
              ELSE Answer("user", 200, UserOut(users, token.sub))
    /\ UNCHANGED <<users, clients, bearer, registrations, now>>

\* A day passes.
Tick ==
    /\ UninvolvedAuth
    /\ now < MaxDays * ACCESS_TOKEN_EXPIRE_MINUTES
    /\ now' = now + ACCESS_TOKEN_EXPIRE_MINUTES
    /\ UNCHANGED <<request, response, users, clients, bearer, registrations>>

InitAuth ==
    /\ Init
    /\ \A e \in ExerciseIds : exercise_tests[e] = <<>>

NextAuth ==
    \/ RegisterUser
    \/ RegisterCommit
    \/ Login
    \/ ReadCurrentUser
    \/ Tick

SpecAuth == InitAuth /\ [][NextAuth]_vars

\* -------------------------------------------------- concurrent run_code calls

\* The threads of the server's pool that handle requests at the same time.
Workers == {1, 2}

\* Submissions: "echo" writes a line to stdout; "count" opens the relative
\* path "seen", writes "b" if the file exists, and creates it and writes a
\* line otherwise.
Programs == {"echo", "count"}

NoFrame ==
    [pc |-> "free", language |-> <<>>, code |-> "", stdin |-> None,
     workdir |-> "none", result |-> [kind |-> "none"]]

\* What a submission writes to stdout, started in directory `cwd_files`.
ProgramStdout(code, cwd_files) ==
    IF code = "count" /\ "seen" \in cwd_files THEN <<"b">> ELSE <<"a", "\n">>

\* The files of the directory a submission was started in when it has ended.
ProgramFiles(code, cwd_files) ==
    IF code = "count" THEN cwd_files \cup {"seen"} ELSE cwd_files

\* The directory the server process itself runs in.
ServerCwd == "."

\* Mutant: the child inherits the working directory of the server process.
ChildCwdInherited(worker) == ServerCwd

\* subprocess.run(..., cwd=workdir): the child is started in the workspace of
\* its call, and a relative path of the submission is a file there.
ChildCwd(worker) == calls[worker].workdir

\* The names of the files of a directory.
FilesIn(dir) ==
    IF dir = ServerCwd THEN host_cwd ELSE {f[2] : f \in {g \in fs.files : g[1] = dir}}

\* What a run_code call leaves alone.
Uninvolved ==
    UNCHANGED <<exercise_tests, pc, request, response, tests, idx, results,
                all_passed, started, executions, call, config, workdir, steps,
                pending, execution, registry, procs, exercise_progress,
                lesson_progress, progress, now, current_user, previous, users,
                clients, bearer, registrations, projects, catalog, sessions>>

\* A thread enters run_code(language, code, stdin).
CallRunCode ==
    \E worker \in Workers :
    /\ Uninvolved
    /\ calls[worker].pc \in {"free", "done"}
    /\ \E language \in Languages, code \in Programs :
        calls' = [calls EXCEPT ![worker] =
                     [NoFrame EXCEPT !.pc = "lookup", !.language = language,
                                     !.code = code]]
    /\ UNCHANGED <<fs, host_cwd>>

\* config = LANGUAGE_CONFIGS.get(language.lower()); raise if there is none.
CallLookup ==
    \E worker \in Workers :
    /\ Uninvolved
    /\ calls[worker].pc = "lookup"
    /\ calls' = [calls EXCEPT ![worker] =
                    IF Resolve(@.language) = NoConfig
                    THEN [@ EXCEPT !.pc = "done", !.result = Raise("ExecutionError")]
                    ELSE [@ EXCEPT !.pc = "with_tmpdir"]]
    /\ UNCHANGED <<fs, host_cwd>>

\* with tempfile.TemporaryDirectory() as tmp_dir, and source_path.write_text(code):
\* mkdtemp makes a directory that did not exist.
CallWorkspace ==
    \E worker \in Workers :
    /\ Uninvolved
    /\ calls[worker].pc = "with_tmpdir"
    /\ \E d \in DirNames \ fs.dirs :
        /\ fs' = [dirs |-> fs.dirs \cup {d},
                  files |-> fs.files \cup
                      {<<d, SourceName(Resolve(calls[worker].language).source_ext)>>}]
        /\ calls' = [calls EXCEPT ![worker].workdir = d,
                                  ![worker].pc =
                                      IF Resolve(calls[worker].language).compile # <<>>
                                      THEN "compile" ELSE "run"]
    /\ UNCHANGED host_cwd

\* The compile step of a submission that compiles: gcc writes the binary.
CallCompile ==
    \E worker \in Workers :
    /\ Uninvolved
    /\ calls[worker].pc = "compile"
    /\ fs' = [fs EXCEPT !.files = @ \cup {<<calls[worker].workdir, BinaryName>>}]
    /\ calls' = [calls EXCEPT ![worker].pc = "run"]
    /\ UNCHANGED host_cwd

\* The run step: the submission runs to its end with exit code 0.
CallRun ==
    \E worker \in Workers :
    /\ Uninvolved
    /\ calls[worker].pc = "run"
    /\ LET frame == calls[worker]
           cwd == ChildCwd(worker)
           before == FilesIn(cwd)
           after == ProgramFiles(frame.code, before)
       IN  /\ calls' = [calls EXCEPT ![worker].pc = "exit_with",
                                     ![worker].result =
                                         Return(Str(ProgramStdout(frame.code, before)),
                                                Str(<<>>), 0, 1)]
           /\ IF cwd = ServerCwd
              THEN /\ host_cwd' = after
                   /\ UNCHANGED fs
              ELSE /\ fs' = [fs EXCEPT !.files = @ \cup {<<cwd, n>> : n \in after}]
                   /\ UNCHANGED host_cwd

\* The with block is left: the workspace of this call is removed.
CallExitWith ==
    \E worker \in Workers :
    /\ Uninvolved
    /\ calls[worker].pc = "exit_with"
    /\ fs' = Cleanup(fs, calls[worker].workdir)
    /\ calls' = [calls EXCEPT ![worker].pc = "done", ![worker].workdir = "none"]
    /\ UNCHANGED host_cwd

NextConcurrent ==
    \/ CallRunCode
    \/ CallLookup
    \/ CallWorkspace
    \/ CallCompile
    \/ CallRun
    \/ CallExitWith

\* No exercise is involved.
InitConcurrent ==
    /\ Init
    /\ \A e \in ExerciseIds : exercise_tests[e] = <<>>

SpecConcurrent == InitConcurrent /\ [][NextConcurrent]_vars

\* ------------------------------------------- concurrent progress requests

\* A thread that handles no request.
NoSession ==
    [pc |-> "free", endpoint |-> "none", language |-> <<>>, all_passed |-> TRUE,
     results |-> <<>>, row |-> 0, all_completed |-> FALSE, status |-> 0]

\* The student, the exercise, the lesson and the course of the requests.
RaceStudent == 1
RaceExercise == 1
RaceLesson == 1
RaceCourse == 1

\* What the requests are graded in.
RaceLanguages == {PythonId}

\* The thread has answered its request with `status`; its session is closed.
Answered(frame, status) ==
    [NoSession EXCEPT !.pc = "done", !.endpoint = frame.endpoint, !.status = status]

\* What the handlers of progress requests leave alone.
RaceUninvolved ==
    UNCHANGED <<exercise_tests, fs, pc, request, response, tests, idx, results,
                all_passed, started, executions, call, config, workdir, steps,
                pending, execution, registry, procs, now, current_user, previous,
                calls, host_cwd, users, clients, bearer, registrations, projects,
                catalog>>

\* A thread takes a request of the student: POST /run-tests up to the end of
\* the loop, which does not touch the store, or POST /mark-lesson-complete
\* up to its lookup of the lesson.
RaceRequest ==
    \E worker \in Workers :
    /\ RaceUninvolved
    /\ sessions[worker].pc \in {"free", "done"}
    /\ \/ \E language \in RaceLanguages :
          LET sorted_tests == SortById(exercise_tests[RaceExercise])
          IN  \E outs \in [1..Len(sorted_tests) -> RunCodeOutcomes(language)] :
              LET loop == GradeLoop(sorted_tests, outs, 1, <<>>, TRUE)
              IN  sessions' = [sessions EXCEPT ![worker] =
                      IF loop.kind = "raise"
                      THEN Answered([endpoint |-> "run-tests"], 500)
                      ELSE [NoSession EXCEPT !.pc = "select", !.endpoint = "run-tests",
                                             !.language = language,
                                             !.all_passed = loop.all_passed,
                                             !.results = loop.results]]
       \/ sessions' = [sessions EXCEPT ![worker] =
                          [NoSession EXCEPT !.pc = "select",
                                            !.endpoint = "mark-lesson-complete"]]
    /\ UNCHANGED <<exercise_progress, lesson_progress, progress>>

\* The rows the select of _get_or_create_exercise_progress, or of
\* _get_or_create_lesson_progress, finds.
RaceFound(endpoint) ==
    IF endpoint = "run-tests"
    THEN ExerciseProgressOf(exercise_progress, RaceStudent, RaceExercise)
    ELSE LessonProgressOf(lesson_progress, RaceStudent, RaceLesson)

\* The select of _get_or_create_*_progress: scalar_one_or_none gives the
\* row, None, or raises MultipleResultsFound.
GetOrCreateSelect ==
    \E worker \in Workers :
    /\ RaceUninvolved
    /\ sessions[worker].pc = "select"
    /\ LET found == RaceFound(sessions[worker].endpoint)
       IN  sessions' = [sessions EXCEPT ![worker] =
               IF found = {} THEN [@ EXCEPT !.pc = "insert"]
               ELSE IF Cardinality(found) = 1
               THEN [@ EXCEPT !.pc = "write", !.row = CHOOSE i \in found : TRUE]
               ELSE Answered(@, 500)]
    /\ UNCHANGED <<exercise_progress, lesson_progress, progress>>

\* if progress is None: db.add(progress); db.commit(); db.refresh(progress)
GetOrCreateInsert ==
    \E worker \in Workers :
    /\ RaceUninvolved
    /\ sessions[worker].pc = "insert"
    /\ IF sessions[worker].endpoint = "run-tests"
       THEN /\ exercise_progress' =
                   Append(exercise_progress,
                          NewExerciseProgress(RaceStudent, RaceExercise))
            /\ sessions' = [sessions EXCEPT ![worker].pc = "write",
                                            ![worker].row = Len(exercise_progress) + 1]
            /\ UNCHANGED lesson_progress
       ELSE /\ lesson_progress' =
                   Append(lesson_progress,
                          [student_id |-> RaceStudent, lesson_id |-> RaceLesson,
                           completed |-> FALSE, completed_at |-> None])
            /\ sessions' = [sessions EXCEPT ![worker].pc = "write",
                                            ![worker].row = Len(lesson_progress) + 1]
            /\ UNCHANGED exercise_progress
    /\ UNCHANGED progress

\* The assignments to the row the thread holds, and db.commit().
CommitRow ==
    \E worker \in Workers :
    /\ RaceUninvolved
    /\ sessions[worker].pc = "write"
    /\ LET frame == sessions[worker]
       IN  IF frame.endpoint = "run-tests"
           THEN /\ exercise_progress' =
                       [exercise_progress EXCEPT ![frame.row] =
                           Graded(@, frame.all_passed, frame.results, frame.language,
                                  now)]
                /\ UNCHANGED lesson_progress
           ELSE /\ lesson_progress' =
                       [lesson_progress EXCEPT ![frame.row] =
                           [@ EXCEPT !.completed = TRUE,
                                     !.completed_at = DateTime(now)]]
                /\ UNCHANGED exercise_progress
    /\ sessions' = [sessions EXCEPT ![worker] =
                        [NoSession EXCEPT !.pc = "sync",
                                          !.endpoint = sessions[worker].endpoint]]
    /\ UNCHANGED progress

\* _sync_course_completion up to its select of the Progress row.
SyncSelect ==
    \E worker \in Workers :
    /\ RaceUninvolved
    /\ sessions[worker].pc = "sync"
    /\ LET found == ProgressOf(progress, RaceStudent, RaceCourse)
           all_completed == AllCompleted(exercise_progress, lesson_progress,
                                         RaceStudent, RaceCourse)
       IN  sessions' = [sessions EXCEPT ![worker] =
               IF Cardinality(found) > 1
               THEN Answered(@, 500)
               ELSE [@ EXCEPT !.pc = "sync_commit",
                              !.all_completed = all_completed,
                              !.row = IF found = {} THEN 0
                                      ELSE CHOOSE i \in found : TRUE]]
    /\ UNCHANGED <<exercise_progress, lesson_progress, progress>>

\* if progress is None: db.add(progress); progress.completed = all_completed;
\* db.commit(); and the handler returns.
SyncCommit ==
    \E worker \in Workers :
    /\ RaceUninvolved
    /\ sessions[worker].pc = "sync_commit"
    /\ LET frame == sessions[worker]
       IN  progress' =
               IF frame.row = 0
               THEN Append(progress,
                           NewProgress(RaceStudent, RaceCourse, frame.all_completed))
               ELSE [progress EXCEPT ![frame.row].completed = frame.all_completed]
    /\ sessions' = [sessions EXCEPT ![worker] = Answered(@, 200)]
    /\ UNCHANGED <<exercise_progress, lesson_progress>>

NextRace ==
    \/ RaceRequest
    \/ GetOrCreateSelect
    \/ GetOrCreateInsert
    \/ CommitRow
    \/ SyncSelect
    \/ SyncCommit

\* The exercise has one test.
InitRace ==
    /\ Init
    /\ \A e \in ExerciseIds :
          /\ exercise_tests[e] \in ProgressTestLists
          /\ Len(exercise_tests[e]) = 1

SpecRace == InitRace /\ [][NextRace]_vars

\* ------------------------------------------------------ the progress report

\* Largest number of courses.
MaxCourses == 3

\* (year, order_index) of a course.
CourseKeys == {[year |-> y, order_index |-> o] : y \in 1..2, o \in 0..1}

\* A course has no lesson, a lesson without exercise, or a lesson with one
\* exercise; the lesson and the exercise of course i have id i.
CourseShapes == {<<0, 0>>, <<1, 0>>, <<1, 1>>}

\* A course with the rows the student has for its tasks: none, or a
\* lesson-progress row of a lesson marked complete and, if the lesson has
\* an exercise, an exercise-progress row of the exercise, graded after that.
Situations ==
    {x \in [shape : CourseShapes, lp : {"none", "completed"},
            ep : {"none", "failed", "passed"}] :
        /\ x.shape[1] = 0 => x.lp = "none"
        /\ x.shape[2] = 0 => x.ep = "none"
        /\ x.ep # "none" => x.lp = "completed"
        /\ (x.lp = "completed" /\ x.shape[2] = 1) => x.ep # "none"}

\* A row of table courses with what course.lessons and lesson.exercises load.
Course(id, key, shape) ==
    [id |-> id, year |-> key.year, order_index |-> key.order_index,
     lessons |-> IF shape[1] = 1 THEN {id} ELSE {},
     exercises |-> IF shape[2] = 1 THEN {id} ELSE {}]

\* The lesson-progress rows of student 1 for the first n courses, lp[i]
\* being the situation of course i.
RECURSIVE LessonRows(_, _)
LessonRows(n, lp) ==
    IF n = 0 THEN <<>>
    ELSE IF lp[n].lp = "none" THEN LessonRows(n - 1, lp)
    ELSE Append(LessonRows(n - 1, lp),
                [student_id |-> 1, lesson_id |-> n, completed |-> TRUE,
                 completed_at |-> DateTime(0)])

\* The exercise-progress rows of student 1 for the first n courses.
RECURSIVE ExerciseRows(_, _)
ExerciseRows(n, ep) ==
    IF n = 0 THEN <<>>
    ELSE IF ep[n].ep = "none" THEN ExerciseRows(n - 1, ep)
    ELSE Append(ExerciseRows(n - 1, ep),
                [NewExerciseProgress(1, n) EXCEPT
                    !.status = ep[n].ep,
                    !.completed_at = IF ep[n].ep = "passed" THEN DateTime(0)
                                     ELSE None,
                    !.last_language = Str(PythonId)])

\* order_by(Course.year, Course.order_index)
Precedes(a, b) ==
    a.year < b.year \/ (a.year = b.year /\ a.order_index <= b.order_index)

\* The rows of a table of courses in an order the query may give them in.
OrderedCourses(table) ==
    {q \in [1..Len(table) -> {table[i] : i \in 1..Len(table)}] :
        /\ \A i \in 1..Len(table) : \E j \in 1..Len(table) : q[j] = table[i]
        /\ \A i, j \in 1..Len(table) : i < j => Precedes(q[i], q[j])}

\* lesson_progress_map and exercise_progress_map: the last entry of a lesson,
\* or exercise, among the student's entries; 0 stands for no entry.
LastEntry(entries) == IF entries = {} THEN 0 ELSE CHOOSE i \in entries : \A j \in entries : j <= i

\* lessons_completed of a course.
LessonsCompleted(course, lprog, student_id) ==
    Cardinality({l \in course.lessons :
                    LET at == LastEntry(LessonProgressOf(lprog, student_id, l))
                    IN  at # 0 /\ lprog[at].completed})

\* exercises_completed of a course.
ExercisesCompleted(course, eprog, student_id) ==
    Cardinality({e \in course.exercises :
                    LET at == LastEntry(ExerciseProgressOf(eprog, student_id, e))
                    IN  at # 0 /\ eprog[at].status = "passed"})

\* Mutant: a course without tasks counts as completed.
CourseStatusEmptyCompleted(previous_course_completed, tasks_total, tasks_completed) ==
    IF ~previous_course_completed THEN "locked"
    ELSE IF tasks_completed = tasks_total THEN "completed"
    ELSE "in_progress"

\* The status of a course in the report.
CourseStatus(previous_course_completed, tasks_total, tasks_completed) ==
    IF ~previous_course_completed THEN "locked"
    ELSE IF tasks_total = 0 THEN "in_progress"
    ELSE IF tasks_completed = tasks_total THEN "completed"
    ELSE "in_progress"

\* completed / total * 100, kept as a fraction; 0.0 without tasks.
Percentage(completed, total) ==
    IF total # 0 THEN [n |-> completed * 100, d |-> total] ELSE [n |-> 0, d |-> 1]

\* for course in courses: ..., from course i on.
RECURSIVE CourseSummaries(_, _, _, _, _, _)
CourseSummaries(courses, lprog, eprog, student_id, i, previous_course_completed) ==
    IF i > Len(courses) THEN <<>>
    ELSE LET course == courses[i]
             lessons_total == Cardinality(course.lessons)
             lessons_completed == LessonsCompleted(course, lprog, student_id)
             exercises_total == Cardinality(course.exercises)
             exercises_completed == ExercisesCompleted(course, eprog, student_id)
             course_tasks_total == lessons_total + exercises_total
             course_tasks_completed == lessons_completed + exercises_completed
             status == CourseStatus(previous_course_completed, course_tasks_total,
                                    course_tasks_completed)
         IN  <<[course |-> course, status |-> status,
                completion_percentage |-> Percentage(course_tasks_completed,
                                                     course_tasks_total),
                lessons_completed |-> lessons_completed,
                lessons_total |-> lessons_total,
                exercises_completed |-> exercises_completed,
                exercises_total |-> exercises_total]>>
             \o CourseSummaries(courses, lprog, eprog, student_id, i + 1,
                                status = "completed")

\* Sum of a field of the summaries.
RECURSIVE Total(_, _)
Total(summaries, field) ==
    IF summaries = <<>> THEN 0
    ELSE summaries[1][field] + Total(Tail(summaries), field)

\* The student's entries of a progress table, in the table's order.
EntriesOf(table, student_id) ==
    SelectSeq(table, LAMBDA row : row.student_id = student_id)

\* GET /progress/{student_id}, the whole handler in one step.
ReadProgress ==
    /\ pc = "idle"
    /\ \E user \in Students \cup {Admin}, student_id \in {1, 2} :
        /\ current_user' = user
        /\ request' = [endpoint |-> "progress", language |-> <<>>, stdin |-> None,
                       exercise_id |-> 0, student_id |-> student_id]
        /\ IF user \in Students /\ user # student_id
           THEN response' = HTTPException(403, "Access denied")
           ELSE IF student_id \notin Students
           THEN response' = HTTPException(404, "Student not found")
           ELSE \E courses \in OrderedCourses(catalog) :
                LET summaries == CourseSummaries(courses, lesson_progress,
                                                 exercise_progress, student_id, 1,
                                                 TRUE)
                    total_tasks == Total(summaries, "lessons_total")
                                   + Total(summaries, "exercises_total")
                    total_completed == Total(summaries, "lessons_completed")
                                       + Total(summaries, "exercises_completed")
                IN  response' =
                        [kind |-> "report", status |-> 200,
                         body |-> [student |-> student_id,
                                   courses |-> summaries,
                                   overall_completion |->
                                       Percentage(total_completed, total_tasks),
                                   lesson_progress |->
                                       EntriesOf(lesson_progress, student_id),
                                   exercise_progress |->
                                       EntriesOf(exercise_progress, student_id)]]
    /\ UNCHANGED <<exercise_tests, fs, pc, tests, idx, results, all_passed, started,
                   executions, call, config, workdir, steps, pending, execution,
                   registry, procs, exercise_progress, lesson_progress, progress,
                   now, previous, calls, host_cwd, users, clients, bearer,
                   registrations, projects, catalog, sessions>>

\* Up to MaxCourses courses with different keys, stored in any order of
\* their keys, and the rows student 1 may have for their tasks.
InitReport ==
    /\ EngineInit
    /\ \A e \in ExerciseIds : exercise_tests[e] = <<>>
    /\ RestInit
    /\ \E n \in 1..MaxCourses :
        \E key \in [1..n -> CourseKeys], situation \in [1..n -> Situations] :
            /\ \A i, j \in 1..n : i # j => key[i] # key[j]
            /\ catalog = [i \in 1..n |-> Course(i, key[i], situation[i].shape)]
            /\ lesson_progress = LessonRows(n, situation)
            /\ exercise_progress = ExerciseRows(n, situation)

NextReport == ReadProgress

SpecReport == InitReport /\ [][NextReport]_vars

\* ------------------------------------------------------------ properties

\* The request being handled, or just answered, is a grading call.
Grading == request.endpoint = "run-tests"

\* The last grading call returned a verdict.
Verdict == Grading /\ response.kind = "verdict"

\* The text a str, bytes or None value holds.
TextOf(x) == x.v

\* The i-th recorded execution matches its test's expected output once both
\* are stripped.
OutputMatches(i) ==
    Strip(TextOf(executions[i].stdout)) = Strip(tests[i].expected_output)

\* C1: in a grading call no test is started after a test whose execution
\* returned a non-zero exit code, and that test's result is the last result;
\* when the first of three tests exits non-zero the verdict holds exactly one
\* result and passed_all is false.
C1_ShortCircuit ==
    Grading =>
        /\ \A i \in 1..Len(executions) :
              executions[i].exit_code # 0 =>
                  /\ Len(started) = i
                  /\ Len(results) = i
                  /\ pc \in {"after_loop", "idle"}
        /\ Verdict =>
              /\ response.body.results = results
              /\ (Len(tests) = 3 /\ executions[1].exit_code # 0) =>
                    /\ Len(response.body.results) = 1
                    /\ response.body.passed_all = FALSE

\* C1 witness: a verdict for three tests of which the first timed out.
C1_Witness ==
    /\ Verdict
    /\ Len(tests) = 3
    /\ executions[1].exit_code = -1
    /\ Len(response.body.results) = 1

\* C2: in every verdict passed_all is true exactly when every result in it
\* has passed; during the loop all_passed says the same of the results so far.
C2_PassedAllIff ==
    /\ Verdict =>
          (response.body.passed_all <=>
              \A i \in 1..Len(response.body.results) :
                  response.body.results[i].passed)
    /\ (Grading /\ pc \in {"for_test", "run_code", "with_tmpdir", "compile", "run",
                           "exit_with", "record", "after_loop"}) =>
          (all_passed <=> \A i \in 1..Len(results) : results[i].passed)

\* C2 witness: a short-circuited verdict whose first result failed on its
\* output and whose last result failed on its exit code.
C2_Witness ==
    /\ Verdict
    /\ Len(response.body.results) = 2
    /\ Len(tests) = 3
    /\ ~response.body.results[1].passed
    /\ executions[1].exit_code = 0
    /\ executions[2].exit_code # 0
    /\ ~response.body.passed_all

Ascending(q) == \A i, j \in 1..Len(q) : i < j => q[i].id < q[j].id

\* C4: the tests run one at a time in ascending id order: the tests iterated
\* are the exercise's rows sorted by id, the test ids started and recorded are
\* prefixes of them, a test is started only when every earlier one has been
\* recorded with exit code 0, and a verdict on a strict prefix ends with a
\* non-zero exit code and has passed_all false.
C4_OrderedPrefix ==
    (Grading /\ tests # <<>>) =>
        /\ Ascending(tests)
        /\ Len(tests) = Len(exercise_tests[request.exercise_id])
        /\ {tests[i] : i \in 1..Len(tests)} =
              {exercise_tests[request.exercise_id][i] : i \in 1..Len(tests)}
        /\ Len(started) <= Len(tests)
        /\ \A i \in 1..Len(started) : started[i] = tests[i].id
        /\ \A i \in 1..Len(results) : results[i].test_id = tests[i].id
        /\ Len(results) <= Len(started)
        /\ Len(started) <= Len(executions) + 1
        /\ \A i \in 1..Len(started) :
              \A j \in 1..(i - 1) :
                  j <= Len(executions) /\ executions[j].exit_code = 0
        /\ (Verdict /\ Len(response.body.results) < Len(tests)) =>
              /\ executions[Len(executions)].exit_code # 0
              /\ response.body.passed_all = FALSE

\* C4 witness: rows stored in descending id order, and a verdict on the first
\* two of three tests.
C4_Witness ==
    /\ Verdict
    /\ Len(tests) = 3
    /\ exercise_tests[1][1].id = 3
    /\ exercise_tests[1][3].id = 1
    /\ Len(response.body.results) = 2
    /\ response.body.results[2].test_id = 2

\* C5: a grading call in which every execution exited 0 with matching
\* stripped output ends with a verdict of N results, one per test in id
\* order, and passed_all true.
C5_FullPass ==
    (/\ Grading
     /\ pc = "idle"
     /\ started # <<>>
     /\ Len(executions) = Len(started)
     /\ \A i \in 1..Len(executions) :
           executions[i].exit_code = 0 /\ OutputMatches(i))
    =>
        /\ response.kind = "verdict"
        /\ Len(response.body.results) = Len(exercise_tests[request.exercise_id])
        /\ \A i \in 1..Len(response.body.results) :
              /\ response.body.results[i].test_id = tests[i].id
              /\ response.body.results[i].passed
        /\ response.body.passed_all = TRUE

\* C5 witness: three tests, the stdout of each equal to its expected output
\* only after stripping, all passed.
C5_Witness ==
    /\ Verdict
    /\ Len(tests) = 3
    /\ Len(response.body.results) = 3
    /\ response.body.passed_all
    /\ \A i \in 1..3 :
          /\ executions[i].exit_code = 0
          /\ response.body.results[i].stdout # response.body.results[i].expected_output

\* The last run_code call has returned or raised, and no other has begun.
RunCodeDone == execution.kind # "none"

NoFiles == [dirs |-> {}, files |-> {}]

\* The language of the request has a profile with a compile command.
HasCompileStep(language) ==
    /\ Lower(language) \in DOMAIN LANGUAGE_CONFIGS
    /\ LANGUAGE_CONFIGS[Lower(language)].compile # <<>>

\* C6: when the compiler exits non-zero, run_code returns the compiler's
\* stdout, stderr and exit code with execution_time 0, and the call never
\* starts the run step.
C6_CompileFailure ==
    \A i \in 1..Len(steps) :
        (steps[i].step = "compile" /\ steps[i].outcome = "exit" /\ steps[i].code # 0) =>
            /\ \A j \in 1..Len(steps) : steps[j].step # "run"
            /\ pc # "run"
            /\ pc = "exit_with" =>
                  pending = Return(steps[i].stdout, steps[i].stderr, steps[i].code, 0)
            /\ RunCodeDone =>
                  execution = Return(steps[i].stdout, steps[i].stderr, steps[i].code, 0)

\* C6 witness: run_code has returned the output of a compiler that wrote to
\* both streams and exited 1.
C6_Witness ==
    /\ pc = "execute_code_after"
    /\ Len(steps) = 3
    /\ steps[2].step = "compile"
    /\ steps[2].code = 1
    /\ steps[2].stdout = Str(<<"o">>)
    /\ execution.kind = "return"
    /\ execution.exit_code = 1
    /\ execution.stdout = Str(<<"o">>)
    /\ execution.execution_time = 0

\* C7: for a language with a compile command the run step is started only
\* right after a compile step that ended with exit code 0, and a call whose
\* run step ended in time with exit code 0 returns exit_code 0.
C7_CompileBeforeRun ==
    /\ HasCompileStep(request.language) =>
          /\ \A i \in 1..Len(steps) :
                steps[i].step = "run" =>
                    /\ i > 1
                    /\ steps[i - 1].step = "compile"
                    /\ steps[i - 1].outcome = "exit"
                    /\ steps[i - 1].code = 0
          /\ pc = "run" =>
                /\ steps # <<>>
                /\ steps[Len(steps)].step = "compile"
                /\ steps[Len(steps)].outcome = "exit"
                /\ steps[Len(steps)].code = 0
    /\ \A i \in 1..Len(steps) :
          (/\ RunCodeDone
           /\ steps[i].step = "run"
           /\ steps[i].outcome = "exit"
           /\ steps[i].code = 0) =>
              /\ execution.kind = "return"
              /\ execution.exit_code = 0

\* C7 witness: a C submission compiled, ran and exited 0.
C7_Witness ==
    /\ RunCodeDone
    /\ HasCompileStep(request.language)
    /\ Len(steps) = 4
    /\ steps[2].step = "compile"
    /\ steps[2].code = 0
    /\ steps[3].step = "run"
    /\ steps[3].outcome = "exit"
    /\ steps[3].code = 0
    /\ execution.kind = "return"
    /\ execution.exit_code = 0

\* C8: a request whose language resolves to no profile makes run_code raise
\* ExecutionError without creating a workspace or a file and without
\* starting a process.
C8_UnsupportedLanguage ==
    (request.endpoint # "none" /\ Lower(request.language) \notin DOMAIN LANGUAGE_CONFIGS) =>
        /\ steps = <<>>
        /\ fs = NoFiles
        /\ workdir = NoDir
        /\ pc \notin {"with_tmpdir", "compile", "run", "exit_with"}
        /\ pc \in {"record", "execute_code_after"} => execution = Raise("ExecutionError")
        /\ RunCodeDone => execution = Raise("ExecutionError")

\* C8 witness: run_code has raised ExecutionError to execute_code.
C8_Witness ==
    /\ pc = "execute_code_after"
    /\ Lower(request.language) \notin DOMAIN LANGUAGE_CONFIGS
    /\ execution = Raise("ExecutionError")
    /\ steps = <<>>

\* C9: whenever control is outside the with block of run_code no workspace
\* directory or file exists, and a finished call that created a workspace
\* ended by removing it, whether it returned or raised.
C9_WorkspaceRemoved ==
    /\ pc \notin {"compile", "run", "exit_with"} => fs = NoFiles
    /\ (RunCodeDone /\ steps # <<>>) =>
          /\ steps[1].step = "mkdtemp"
          /\ steps[Len(steps)].step = "cleanup"
          /\ \A i \in 2..Len(steps) : steps[i].step # "mkdtemp"

\* C9 witness: a compile step timed out, the exception left run_code, and
\* the workspace is gone.
C9_Witness ==
    /\ RunCodeDone
    /\ execution = Raise("TimeoutExpired")
    /\ Len(steps) = 3
    /\ steps[1].step = "mkdtemp"
    /\ steps[2].outcome = "timeout"
    /\ steps[3].step = "cleanup"
    /\ fs = NoFiles

\* C10: a run step that exceeds the timeout makes run_code return, not
\* raise: exit_code is -1, stdout holds the partial output captured (empty if
\* none), and stderr is the partial stderr followed by the timeout marker.
\* The streams are compared by their content, whether held as str or bytes.
C10_TimeoutAsData ==
    \A i \in 1..Len(steps) :
        (RunCodeDone /\ steps[i].step = "run" /\ steps[i].outcome = "timeout") =>
            /\ execution.kind = "return"
            /\ execution.exit_code = -1
            /\ TextOf(execution.stdout) = TextOf(steps[i].stdout)
            /\ TextOf(execution.stderr) = TextOf(steps[i].stderr) \o TimeoutMarker

\* The language of the request has a profile.
Supported(language) == Lower(language) \in DOMAIN LANGUAGE_CONFIGS

\* C11: for a supported language, whatever the submitted code does in the
\* compile step and in the run step, run_code returns a result and never
\* raises, and a grading call records a result for every test it started and
\* answers with a verdict.
C11_OutcomesAsData ==
    /\ (RunCodeDone /\ Supported(request.language)) => execution.kind = "return"
    /\ (Grading /\ Supported(request.language) /\ pc = "idle" /\ started # <<>>) =>
          /\ response.kind = "verdict"
          /\ Len(results) = Len(started)

\* C12: when the executable of a step is not found run_code returns exit
\* code 127, empty stdout and "Command not found: <name>" on stderr; in the
\* compile step execution_time is 0 and the run step is not attempted.
C12_CommandNotFound ==
    \A i \in 1..Len(steps) :
        steps[i].outcome = "notfound" =>
            /\ i = Len(steps) \/ (i = Len(steps) - 1 /\ steps[Len(steps)].step = "cleanup")
            /\ pc \in {"exit_with", "record", "execute_code_after", "for_test",
                       "after_loop", "idle"}
            /\ steps[i].step = "compile" => \A j \in 1..Len(steps) : steps[j].step # "run"
            /\ RunCodeDone =>
                  /\ execution.kind = "return"
                  /\ execution.exit_code = 127
                  /\ execution.stdout = Str(<<>>)
                  /\ execution.stderr =
                        Str(<<"Command not found:", " ", steps[i].command[1]>>)
                  /\ steps[i].step = "compile" => execution.execution_time = 0

\* C12 witness: gcc is missing, and run_code has returned 127 without a run
\* step.
C12_Witness ==
    /\ RunCodeDone
    /\ Len(steps) = 3
    /\ steps[2].step = "compile"
    /\ steps[2].outcome = "notfound"
    /\ execution.exit_code = 127
    /\ execution.stderr = Str(<<"Command not found:", " ", "gcc">>)
    /\ execution.execution_time = 0

\* C13: when a step of run_code times out, the process it started and every
\* process that one started are terminated before the workspace is removed.
C13_TimeoutKillsAll ==
    \A i \in 1..Len(steps) :
        (steps[i].outcome = "timeout" /\ pc = "exit_with") => procs = {}

\* C14: a grading call for an existing exercise with at least one test and a
\* language without a profile produces no result and no verdict; it ends in
\* the 400 error raised from run_code's ExecutionError.
C14_UnsupportedGrading ==
    (/\ Grading
     /\ ~Supported(request.language)
     /\ request.exercise_id \in DOMAIN exercise_tests
     /\ exercise_tests[request.exercise_id] # <<>>)
    =>
        /\ results = <<>>
        /\ executions = <<>>
        /\ Len(started) <= 1
        /\ response.kind \in {"none", "error"}
        /\ pc = "idle" =>
              /\ response = HTTPException(400, "Unsupported language")
              /\ Len(started) = 1
              /\ execution = Raise("ExecutionError")

\* C14 witness: a grading call in ruby on an exercise with three tests was
\* answered 400 after the first run_code call.
C14_Witness ==
    /\ Grading
    /\ pc = "idle"
    /\ ~Supported(request.language)
    /\ Len(tests) = 3
    /\ started = <<1>>
    /\ response.status = 400

\* C15: a grading call for an exercise without tests ends in the 400 error
\* "no tests configured" and one for an unknown exercise in the 404 error,
\* both without executing anything; no verdict has an empty result list.
C15_NoTestsNoVerdict ==
    /\ (Grading /\ pc # "execute_tests") =>
          /\ request.exercise_id \notin DOMAIN exercise_tests =>
                /\ pc = "idle"
                /\ response = HTTPException(404, "Exercise not found")
                /\ started = <<>>
                /\ steps = <<>>
          /\ (/\ request.exercise_id \in DOMAIN exercise_tests
              /\ exercise_tests[request.exercise_id] = <<>>) =>
                /\ pc = "idle"
                /\ response = HTTPException(400, "Exercise has no tests configured")
                /\ started = <<>>
                /\ steps = <<>>
    /\ Verdict => response.body.results # <<>>

\* C15 witness: the exercise has no tests and the grading call was answered
\* 400.
C15_Witness ==
    /\ Grading
    /\ pc = "idle"
    /\ request.exercise_id = 1
    /\ exercise_tests[1] = <<>>
    /\ response.status = 400
    /\ started = <<>>

\* C16: after a grading call that produced a verdict, the student has one
\* exercise-progress row for the exercise, and it holds: status "passed" or
\* "failed" as passed_all says, last_error null on a full pass and the last
\* result's stderr otherwise, last_run_output the last result's stdout,
\* completed_at the time of the call on a full pass, last_language the
\* language submitted -- whatever the row held before.
C16_ProgressRecorded ==
    Verdict =>
        LET rows == ExerciseProgressOf(exercise_progress, current_user,
                                       request.exercise_id)
            res == response.body.results
            last == res[Len(res)]
        IN  /\ Cardinality(rows) = 1
            /\ \A i \in rows :
                LET row == exercise_progress[i]
                IN  /\ row.status = IF response.body.passed_all THEN "passed" ELSE "failed"
                    /\ row.last_error = IF response.body.passed_all THEN None
                                        ELSE Str(last.stderr)
                    /\ row.last_run_output = Str(last.stdout)
                    /\ response.body.passed_all => row.completed_at = DateTime(now - 1)
                    /\ row.last_language = Str(request.language)

\* C16 witness: a row that was "passed" is "failed" after a submission that
\* failed a test.
C16_Witness ==
    /\ Verdict
    /\ ~response.body.passed_all
    /\ previous = "passed"
    /\ StatusOf(exercise_progress, current_user, request.exercise_id) = "failed"

\* C17: at any point of any interleaving of run_code calls, the calls that
\* have a workspace have different ones, every file of a workspace was put
\* there by the call that owns it, and two finished calls with the same
\* language, code and stdin have the same stdout, stderr and exit code.
C17_PerCallIsolation ==
    /\ \A v, w \in Workers :
        (v # w /\ calls[v].workdir # "none" /\ calls[w].workdir # "none") =>
            calls[v].workdir # calls[w].workdir
    /\ \A f \in fs.files : \E w \in Workers : calls[w].workdir = f[1]
    /\ \A v, w \in Workers :
        (/\ calls[v].pc = "done"
         /\ calls[w].pc = "done"
         /\ calls[v].language = calls[w].language
         /\ calls[v].code = calls[w].code
         /\ calls[v].stdin = calls[w].stdin) =>
            /\ calls[v].result.kind = calls[w].result.kind
            /\ calls[v].result.kind = "return" =>
                  Observed(calls[v].result) = Observed(calls[w].result)

\* C17 witness: two calls of the same submission are both about to leave
\* their with blocks; each has created the file "seen" in its own workspace
\* and each has the output of a first run.
C17_Witness ==
    /\ \A w \in Workers :
        /\ calls[w].pc = "exit_with"
        /\ calls[w].code = "count"
        /\ calls[w].language = PythonId
        /\ <<calls[w].workdir, "seen">> \in fs.files
        /\ calls[w].result.stdout = Str(<<"a", "\n">>)
    /\ calls[1].workdir # calls[2].workdir

\* C18: a run_code call whose language is any upper/lower-case spelling of
\* a registered identifier works with the profile registered under the
\* lower-case identifier and never ends in ExecutionError, and the registry
\* is at every moment the one the module was loaded with.
C18_CaseInsensitiveLookup ==
    /\ registry = LANGUAGE_CONFIGS
    /\ \A id \in DOMAIN LANGUAGE_CONFIGS :
        (request.endpoint = "run-code" /\ request.language \in CaseVariants(id)) =>
            /\ pc \in {"with_tmpdir", "compile", "run", "exit_with"} =>
                  config = LANGUAGE_CONFIGS[id]
            /\ execution.kind = "raise" => execution.exc # "ExecutionError"
            /\ response.kind = "error" => response.status # 400

\* C18 witness: the run step of a call for "PyThOn" has the python profile.
C18_Witness ==
    /\ request.language = <<"P", "y", "T", "h", "O", "n">>
    /\ pc = "run"
    /\ config = LANGUAGE_CONFIGS[PythonId]
    /\ registry = LANGUAGE_CONFIGS

\* Whether a request /auth/register with this email and password was
\* answered 201.
Registered(email, password) ==
    [email |-> email, password |-> password] \in registrations

\* C19 as stated: a login with the email and password of a successful
\* registration is answered 200 with a token, and /auth/me with the token of
\* such a login is answered with the user whose email is the address of the
\* register payload, whenever the token is presented.
C19_AsStated ==
    /\ (request.endpoint = "login" /\ Registered(request.email, request.password)) =>
          /\ response.status = 200
          /\ response.body # NoToken
    /\ (/\ request.endpoint = "me"
        /\ request.token = bearer.token
        /\ request.token # NoToken
        /\ \E r \in registrations : r.email = bearer.token_for) =>
          /\ response.status = 200
          /\ response.body.email.local = bearer.token_for.local
          /\ Lower(response.body.email.domain) = Lower(bearer.token_for.domain)

\* C19: a login with the email and password of a successful registration is
\* answered 200 with a token; /auth/me with the token of such a login,
\* presented before the token's expiry 24 hours after the login, is answered
\* with the user whose email is the email of the register payload with its
\* domain in lower case.
C19_RegisterLoginMe ==
    /\ (request.endpoint = "login" /\ Registered(request.email, request.password)) =>
          /\ response.status = 200
          /\ response.body # NoToken
          /\ response.body.exp = bearer.token.exp
    /\ (/\ request.endpoint = "me"
        /\ request.token = bearer.token
        /\ request.token # NoToken
        /\ \E r \in registrations : r.email = bearer.token_for
        /\ now <= bearer.token.exp) =>
          /\ response.status = 200
          /\ response.body.email.local = bearer.token_for.local
          /\ \A i \in 1..Len(bearer.token_for.domain) :
                response.body.email.domain[i] \in
                    {bearer.token_for.domain[i], LowerChar(bearer.token_for.domain[i])}
          /\ \E r \in registrations :
                /\ r.email.local = response.body.email.local
                /\ Lower(r.email.domain) = response.body.email.domain

\* C19 witness: two users are registered, and /auth/me with the token of a
\* login as the second, a day after the login, returned the second.
C19_Witness ==
    /\ Len(users) = 2
    /\ request.endpoint = "me"
    /\ request.token = bearer.token
    /\ now = bearer.token.exp
    /\ response.status = 200
    /\ response.body.id = 2
    /\ Registered(bearer.token_for, <<"s", "e", "c", "r", "e", "t">>)

\* C20: every row of users has role "student"; no step changes or removes a
\* row; no two rows have the same email; and a well-formed /auth/register
\* request whose email was registered when the request came in is answered
\* 400 and adds no row.
C20_RegisterStudentOnly ==
    [][/\ \A i \in DOMAIN users' : users'[i].role = "student"
       /\ \A i \in DOMAIN users : i \in DOMAIN users' /\ users'[i] = users[i]
       /\ \A i, j \in DOMAIN users' : users'[i].email = users'[j].email => i = j
       /\ (/\ request'.endpoint = "register"
           /\ request'.taken
           /\ Len(request'.password) >= MinPasswordLength) =>
             /\ response' = HTTPException(400, "Email already registered")
             /\ users' = users]_vars

\* C20 witness: a register request with a "role" key and the email of the
\* one user, its domain in upper case, was answered 400.
C20_Witness ==
    /\ Len(users) = 1
    /\ users[1].role = "student"
    /\ request.endpoint = "register"
    /\ request.role = "admin"
    /\ request.taken
    /\ request.email.domain = <<"C">>
    /\ response.status = 400

\* C21 (as stated): a result whose execution exited 0 with output that does
\* not match is recorded as not passed and the next test is started; and a
\* grading call for a supported language that is over has started all of its
\* N tests exactly when none of the first N-1 executions has a non-zero exit
\* code.
C21_OnlyNonZeroExitStops ==
    (Grading /\ Len(tests) > 0) =>
        /\ \A i \in 1..Len(results) :
              (executions[i].exit_code = 0 /\ ~OutputMatches(i)) =>
                  /\ ~results[i].passed
                  /\ (pc = "idle" /\ i < Len(tests)) => Len(started) > i
        /\ (pc = "idle" /\ Supported(request.language)) =>
              (Len(started) = Len(tests) <=>
                  \A i \in 1..(Len(tests) - 1) :
                      i <= Len(executions) => executions[i].exit_code = 0)

\* The steps subprocess.run was called for.
ProcessSteps == {i \in 1..Len(steps) : steps[i].step \in {"compile", "run"}}

\* C22: the compile step and the run step of a call are each given the
\* timeout of the language profile and each takes at most that long, so a
\* call may take more than one timeout; the execution_time of a returned
\* result is the time of the run step alone, and 0 when no run step was
\* started.
C22_TimeoutPerStep ==
    /\ \A i \in ProcessSteps :
          /\ steps[i].timeout = LANGUAGE_CONFIGS[Lower(request.language)].timeout
          /\ steps[i].elapsed <= steps[i].timeout
    /\ (pc = "exit_with" /\ pending.kind = "return") =>
          /\ steps[Len(steps)].step \in {"compile", "run"}
          /\ pending.execution_time =
                IF steps[Len(steps)].step = "run" THEN steps[Len(steps)].elapsed ELSE 0

\* C22 witness: a C submission was compiled in 1 second and ran for 2; both
\* steps had 10 seconds, and the result reports 2 seconds.
C22_Witness ==
    /\ pc = "exit_with"
    /\ Len(steps) = 3
    /\ steps[2].step = "compile" /\ steps[2].timeout = 10 /\ steps[2].elapsed = 1
    /\ steps[3].step = "run" /\ steps[3].timeout = 10 /\ steps[3].elapsed = 2
    /\ pending.kind = "return"
    /\ pending.execution_time = 2

\* C23: in a grading call every compile step and every run step is given 8
\* seconds for python and 10 seconds for c, whatever the timeout column of
\* the test case being graded holds.
C23_ProfileTimeoutOnly ==
    Grading =>
        \A i \in ProcessSteps :
            /\ Lower(request.language) = PythonId => steps[i].timeout = 8
            /\ Lower(request.language) = CId => steps[i].timeout = 10
            /\ idx \in 1..Len(tests) => steps[i].timeout # tests[idx].timeout

\* C23 witness: the tests with timeout 5 and with timeout 20 have both been
\* run with the 8 seconds of the python profile.
C23_Witness ==
    /\ Grading
    /\ request.language = PythonId
    /\ pc = "record"
    /\ idx = 2
    /\ tests[1].timeout = 5
    /\ tests[2].timeout = 20
    /\ Len(steps) = 3
    /\ steps[2].step = "run"
    /\ steps[2].timeout = 8

\* The compile step of the call for the test being graded exited non-zero.
CompileExitedNonZero ==
    \E i \in 1..Len(steps) :
        steps[i].step = "compile" /\ steps[i].outcome = "exit" /\ steps[i].code # 0

\* C28: a grading call whose compile step exits non-zero starts no run step
\* and no further test; when that happens at the first test the answer is a
\* verdict with passed_all false and exactly one result, which is for the
\* test with the smallest id, has passed false and carries the compiler's
\* stderr.
C28_CompileFailureVerdict ==
    (Grading /\ idx \in 1..Len(tests) /\ CompileExitedNonZero) =>
        /\ \A i \in 1..Len(steps) : steps[i].step # "run"
        /\ Len(started) = idx
        /\ pc \notin {"for_test", "run"}
        /\ (pc = "idle" /\ idx = 1) =>
              /\ Verdict
              /\ response.body.passed_all = FALSE
              /\ Len(response.body.results) = 1
              /\ \A t \in 1..Len(exercise_tests[request.exercise_id]) :
                    response.body.results[1].test_id
                        <= exercise_tests[request.exercise_id][t].id
              /\ response.body.results[1].passed = FALSE
              /\ \E i \in 1..Len(steps) :
                    /\ steps[i].step = "compile"
                    /\ response.body.results[1].stderr = steps[i].stderr.v

\* C28 witness: three tests stored out of order, the compiler wrote a
\* diagnostic and exited 1, and the verdict holds one result, for test 1.
C28_Witness ==
    /\ Verdict
    /\ Len(exercise_tests[request.exercise_id]) = 3
    /\ exercise_tests[request.exercise_id][1].id = 3
    /\ CompileExitedNonZero
    /\ Len(response.body.results) = 1
    /\ response.body.results[1].test_id = 1
    /\ response.body.results[1].stderr = <<"e", "\n">>
    /\ ~response.body.passed_all

\* A grading call was the last request.
GradingCall == request.endpoint = "run-tests"

\* The row of the exercise-progress table of the student and exercise of
\* the last request.
GradedRow ==
    exercise_progress[CHOOSE i \in ExerciseProgressOf(exercise_progress, current_user,
                                                      request.exercise_id) : TRUE]

\* C24: every exercise-progress record has completed_at set exactly when
\* its status is "passed", and a "passed" record has no last_error; a new
\* record is "pending" without completed_at.
C24_CompletedAtIffPassed ==
    /\ \A i \in DOMAIN exercise_progress :
          /\ exercise_progress[i].completed_at # None
                <=> exercise_progress[i].status = "passed"
          /\ exercise_progress[i].status = "passed"
                => exercise_progress[i].last_error = None
    /\ \A s \in Students, e \in ExerciseIds :
          /\ NewExerciseProgress(s, e).status = "pending"
          /\ NewExerciseProgress(s, e).completed_at = None

\* C24 witness: a record that was "passed" has been graded "failed": it has
\* a last_error and no completed_at.
C24_Witness ==
    /\ GradingCall
    /\ response.kind = "verdict"
    /\ previous = "passed"
    /\ GradedRow.status = "failed"
    /\ GradedRow.completed_at = None
    /\ GradedRow.last_error = Str(<<"e">>)

\* C26: a grading call answered with an error (exercise not found, no tests
\* configured, unsupported language) leaves the exercise-progress table, the
\* lesson-progress table and the course progress table as they were.
C26_ErrorLeavesStore ==
    [][(request'.endpoint = "run-tests" /\ response'.kind = "error") =>
          /\ exercise_progress' = exercise_progress
          /\ lesson_progress' = lesson_progress
          /\ progress' = progress]_vars

\* C26 witness: a student without any record was answered 400 for an
\* unsupported language, and has no record.
C26_Witness ==
    /\ GradingCall
    /\ response = HTTPException(400, "Unsupported language")
    /\ previous = "none"
    /\ exercise_progress = <<>>
    /\ progress = <<>>
    /\ now > 0

\* C27 (as stated): after a grading call that recorded "failed", the last
\* result of the verdict did not pass.
C27_LastResultFailed ==
    (/\ GradingCall
     /\ response.kind = "verdict"
     /\ GradedRow.status = "failed") =>
        ~response.body.results[Len(response.body.results)].passed

\* C27: after a grading call that recorded "failed", last_error and
\* last_run_output are the stderr and stdout of the last result of the
\* verdict, some result of the verdict did not pass, and the last result
\* did not pass unless an earlier one did not.
C27_LastResultStored ==
    (/\ GradingCall
     /\ response.kind = "verdict"
     /\ GradedRow.status = "failed") =>
        LET res == response.body.results
        IN  /\ GradedRow.last_error = Str(res[Len(res)].stderr)
            /\ GradedRow.last_run_output = Str(res[Len(res)].stdout)
            /\ \E i \in 1..Len(res) : ~res[i].passed
            /\ res[Len(res)].passed => \E i \in 1..(Len(res) - 1) : ~res[i].passed

\* C27 witness: the first test wrote the wrong output and exited 0, the
\* second passed; the record is "failed" with the streams of the second.
C27_Witness ==
    /\ GradingCall
    /\ response.kind = "verdict"
    /\ GradedRow.status = "failed"
    /\ Len(response.body.results) = 2
    /\ ~response.body.results[1].passed
    /\ response.body.results[2].passed
    /\ GradedRow.last_run_output = Str(<<"a", "\n">>)
    /\ GradedRow.last_error = Str(<<>>)

\* The student has completed every lesson of the course and has status
\* "passed" for every exercise of the course.
CourseDone(student_id, course_id) ==
    /\ \A l \in CourseLessons(course_id) :
          \E i \in DOMAIN lesson_progress :
              /\ lesson_progress[i].student_id = student_id
              /\ lesson_progress[i].lesson_id = l
              /\ lesson_progress[i].completed
    /\ \A e \in UNION {LessonExercises(l) : l \in CourseLessons(course_id)} :
          \E i \in DOMAIN exercise_progress :
              /\ exercise_progress[i].student_id = student_id
              /\ exercise_progress[i].exercise_id = e
              /\ exercise_progress[i].status = "passed"

\* The student of the last request has one course progress row for course
\* 1, and its completed flag says whether the course is done.
CourseFlagSynced ==
    /\ Cardinality(ProgressOf(progress, current_user, 1)) = 1
    /\ \A i \in ProgressOf(progress, current_user, 1) :
          progress[i].completed <=> CourseDone(current_user, 1)

\* C29: right after a run-tests or mark-lesson-complete call answered 200,
\* the student's course progress row is completed exactly when every lesson
\* of the course is completed and every exercise of the course is "passed",
\* whatever an admin's project update had set before; and no step takes the
\* completed flag of a lesson-progress row back to false.
C29_CourseFlagFollows ==
    [][/\ (/\ request'.endpoint \in {"run-tests", "mark-lesson-complete"}
           /\ response'.status = 200) => CourseFlagSynced'
       /\ \A i \in DOMAIN lesson_progress :
             /\ i \in DOMAIN lesson_progress'
             /\ lesson_progress[i].completed => lesson_progress'[i].completed]_vars

\* C29 witness: an admin had scored the project, which marks the course
\* completed; after a grading call that failed, the course is not completed.
C29_Witness ==
    /\ GradingCall
    /\ response.kind = "verdict"
    /\ ~response.body.passed_all
    /\ Len(progress) = 1
    /\ progress[1].score = PyInt(90)
    /\ progress[1].completed = FALSE
    /\ Len(lesson_progress) = 1
    /\ lesson_progress[1].completed

\* No request is being handled by a thread.
NoRequestInFlight == \A w \in Workers : sessions[w].pc \in {"free", "done"}

\* C25 (as stated): whenever no request is in flight, the student has at
\* most one exercise-progress row for the exercise, at most one
\* lesson-progress row for the lesson and at most one progress row for the
\* course.
C25_NoDuplicateRows ==
    NoRequestInFlight =>
        /\ Cardinality(ExerciseProgressOf(exercise_progress, RaceStudent,
                                          RaceExercise)) <= 1
        /\ Cardinality(LessonProgressOf(lesson_progress, RaceStudent,
                                        RaceLesson)) <= 1
        /\ Cardinality(ProgressOf(progress, RaceStudent, RaceCourse)) <= 1

\* The last request was answered with a progress report.
Report == request.endpoint = "progress" /\ response.kind = "report"

\* The student of the report has completed every lesson of the course and
\* passed every exercise of the course.
AllTasksDone(course) ==
    /\ \A l \in course.lessons :
          \E i \in DOMAIN lesson_progress :
              /\ lesson_progress[i].student_id = request.student_id
              /\ lesson_progress[i].lesson_id = l
              /\ lesson_progress[i].completed
    /\ \A e \in course.exercises :
          \E i \in DOMAIN exercise_progress :
              /\ exercise_progress[i].student_id = request.student_id
              /\ exercise_progress[i].exercise_id = e
              /\ exercise_progress[i].status = "passed"

\* C30: a progress report lists every course once, in the order of (year,
\* order_index); a course is "locked" exactly when it is not the first and
\* the course before it is not "completed"; a "completed" course has at
\* least one task, all its lessons completed and all its exercises passed;
\* and every course after one that is not "completed" is "locked".
C30_LockedAfterIncomplete ==
    Report =>
        LET out == response.body.courses
        IN  /\ Len(out) = Len(catalog)
            /\ \A i \in 1..Len(catalog) : \E k \in 1..Len(out) : out[k].course = catalog[i]
            /\ \A j, k \in 1..Len(out) :
                  j < k =>
                      \/ out[j].course.year < out[k].course.year
                      \/ /\ out[j].course.year = out[k].course.year
                         /\ out[j].course.order_index <= out[k].course.order_index
            /\ \A k \in 1..Len(out) :
                  /\ out[k].status \in {"locked", "in_progress", "completed"}
                  /\ out[k].status = "locked"
                        <=> (k > 1 /\ out[k - 1].status # "completed")
                  /\ out[k].status = "completed" =>
                        /\ out[k].course.lessons \cup out[k].course.exercises # {}
                        /\ AllTasksDone(out[k].course)
                  /\ \A j \in 1..(k - 1) :
                        out[j].status # "completed" => out[k].status = "locked"

\* C30 witness: three courses stored out of order; in the report the first
\* is completed, the second is in progress, and the third, whose tasks are
\* all done, is locked.
C30_Witness ==
    /\ Report
    /\ Len(response.body.courses) = 3
    /\ response.body.courses[1].course.id = 3
    /\ response.body.courses[1].status = "completed"
    /\ response.body.courses[2].status = "in_progress"
    /\ response.body.courses[3].status = "locked"
    /\ response.body.courses[3].course.exercises # {}
    /\ AllTasksDone(response.body.courses[3].course)

=============================================================================
